---- MODULE Spec2Model ----
(***************************************************************************)
(* Command Line Interface (GeneralEmbeddedCLibraries/cli), src/src/cli.c.  *)
(*                                                                         *)
(* The model follows cli.c, cli_par.c, cli_nvm.c and cli_osci.c with       *)
(* CLI_CFG_DEBUG_EN == 0 and CLI_ASSERT compiled out (cli_cfg.h is a user  *)
(* supplied header), and with the termination string "\r\n": the line      *)
(* accumulator cli_parser_hndl, the splitter cli_find_char /               *)
(* cli_calc_cmd_size, the table search, the output channel cli_printf,     *)
(* the parameter commands, the live watch data in NVM and the software     *)
(* oscilloscope.  The record cfg holds the switches of the build           *)
(* (CLI_CFG_PAR_USE_EN, CLI_CFG_STREAM_NVM_EN) and the calls of the NVM    *)
(* interface that can fail on the device.                                  *)
(*                                                                         *)
(* A C string is a sequence of one-character strings; a buffer is a        *)
(* function from its C indices to characters; a pointer into a string is   *)
(* the index it points at and NULL is a value of its own.                  *)
(***************************************************************************)
EXTENDS Integers, Sequences, FiniteSets, TLC

----------------------------------------------------------------------------
(* State                                                                   *)

VARIABLES
    gb_is_init,          \* initialization guard
    gu8_rx_buffer,       \* reception buffer
    buf_idx,             \* static cursor of cli_parser_hndl
    rx_fifo,             \* bytes queued in the transport (cli_if_receive)
    ev,                  \* what the last cli_hndl call did (observation)
    line_clean,          \* the buffer was all NUL when the current line began
    ovr,                 \* the stream is inside a line that overflowed
    rx_tail,             \* last bytes taken from the transport
    tx,                  \* strings passed to cli_if_transmit by the last call
    calls,               \* handlers and collaborators invoked by the last call
    ch_en,               \* per-channel enable flags (cli_cfg_set_ch_en)
    gp_cli_user_tables,  \* pointer array to user defined tables
    gu32_user_table_count,
    registered,          \* the tables registration accepted, in order (observation)
    gu8_tx_buffer,       \* transmit (staging) buffer: the text last rendered
    cfg,                 \* build configuration, fixed by the initial state
    pc,                  \* position of each task inside its cli_printf call
    mutex,               \* owner of the mutex of cli_if_aquire_mutex
    tx_overrun,          \* a vsprintf wrote beyond gu8_tx_buffer (observation)
    g_cli_live_watch,    \* live watch data (CLI_CFG_PAR_USE_EN == 1)
    nvm,                 \* the NVM region of the live watch data
    g_cli_osci,          \* oscilloscope control block and its static counters
    par_values,          \* the values of the device parameters
    loop_cnt             \* static loop_cnt of cli_hndl

vars == <<gb_is_init, gu8_rx_buffer, buf_idx, rx_fifo, ev, line_clean, ovr,
          rx_tail, tx, calls, ch_en, gp_cli_user_tables,
          gu32_user_table_count, registered, gu8_tx_buffer, cfg, pc, mutex,
          tx_overrun, g_cli_live_watch, nvm, g_cli_osci, par_values, loop_cnt>>

rxVars  == <<gu8_rx_buffer, buf_idx, rx_fifo, ev, line_clean, ovr, rx_tail>>
regVars == <<gp_cli_user_tables, gu32_user_table_count, registered>>
modVars == <<g_cli_live_watch, nvm, g_cli_osci, par_values, loop_cnt>>
auxVars == <<cfg, pc, mutex, tx_overrun, modVars>>

----------------------------------------------------------------------------
(* Characters and the C library functions the code calls                   *)

NUL == "NUL"
CR  == "\r"
LF  == "\n"
SP  == " "

\* A NULL pointer: no C string (a C string never holds the element "NULL").
NULL == <<"NULL">>

\* eCLI_OK, eCLI_ERROR, eCLI_ERROR_INIT of cli_status_t
eCLI_OK         == "eCLI_OK"
eCLI_ERROR      == "eCLI_ERROR"
eCLI_ERROR_INIT == "eCLI_ERROR_INIT"
eCLI_ERROR_NVM  == "eCLI_ERROR_NVM"

\* Size of the reception buffer: sizeof( gu8_rx_buffer ).  It is fixed by the
\* initial state: RxBufSizeBytes where single bytes are fed, RxBufSizeLines
\* where whole command lines are.
CLI_CFG_RX_BUF_SIZE == Cardinality(DOMAIN gu8_rx_buffer)

RxBufSizeBytes == 4
RxBufSizeLines == 18

\* The termination string of received and transmitted lines.
CLI_CFG_TERMINATION_STRING == <<CR, LF>>

\* Iterations of the byte-draining loop of one cli_parser_hndl call.
EscapeLimit == 10000

\* Bytes the transport may deliver, and how many it queues (model bounds).
RxBytes == {"a", CR, LF}
MaxFifo == 4

\* The command lines the transport may deliver, and the bytes it queues when
\* whole lines are fed and how many of them it queues (model bounds).
Lines ==
    { <<"h","e","l","p">>,
      <<"h","e","l","p",SP>>,
      <<"p","a","r">>,
      <<"p","a","r","_","s","e","t">>,
      <<"p","a","r","_","s","e","t",SP,"1","2",",","3",".","5">>,
      <<"c","m","d",SP>>,
      <<"d","u","p">>,
      <<"n","o","p","e">> }

MaxQueuedLines == 1

\* The C string that starts at buf[from]: the characters up to the first NUL.
\* The last cell of the reception buffer is never written, so the scan stops
\* inside the buffer.
RECURSIVE strend(_, _)
strend(buf, i) ==
    IF i > CLI_CFG_RX_BUF_SIZE - 1 \/ buf[i] = NUL THEN i ELSE strend(buf, i + 1)

CStr(buf, from) == [ k \in 1 .. (strend(buf, from) - from) |-> buf[from + k - 1] ]

\* Whether `t` occurs in `s` at 0-based offset p.
OccursAt(s, t, p) ==
    /\ p + Len(t) <= Len(s)
    /\ \A i \in 1 .. Len(t) : s[p + i] = t[i]

\* The first offset from p on at which t occurs in s, -1 if there is none.
RECURSIVE FirstOccurrence(_, _, _)
FirstOccurrence(s, t, p) ==
    IF p + Len(t) > Len(s) THEN -1
    ELSE IF OccursAt(s, t, p) THEN p
    ELSE FirstOccurrence(s, t, p + 1)

\* strstr(s, t): offset of the first occurrence of t in s, -1 for NULL.
strstr(s, t) == FirstOccurrence(s, t, 0)

\* memset(&buf[p], 0, n)
memset0(buf, p, n) ==
    [ i \in DOMAIN buf |-> IF i >= p /\ i < p + n THEN NUL ELSE buf[i] ]

\* The character of C string s at C index i (the terminating NUL at its end).
CharAt(s, i) == IF i < Len(s) THEN s[i + 1] ELSE NUL

\* strncmp(a, b, n) == 0
RECURSIVE StrnEqFrom(_, _, _, _)
StrnEqFrom(a, b, n, i) ==
    IF i >= n THEN TRUE
    ELSE IF CharAt(a, i) # CharAt(b, i) THEN FALSE
    ELSE IF CharAt(a, i) = NUL THEN TRUE
    ELSE StrnEqFrom(a, b, n, i + 1)

strncmp0(a, b, n) == StrnEqFrom(a, b, n, 0)

\* (uint32_t) x of an int32_t x.  A negative x becomes a value of at least
\* 2^31, above every size and index of the program; such values are held as
\* 2147483647, the largest integer of the model checker.
ToUint32(x) == IF x < 0 THEN 2147483647 ELSE x

\* #define CLI_MAX(a,b)
CLI_MAX(a, b) == IF a >= b THEN a ELSE b

----------------------------------------------------------------------------
(* Output channel                                                          *)

\* The characters of a C string as one text.
RECURSIVE Str(_)
Str(s) == IF s = <<>> THEN "" ELSE s[1] \o Str(Tail(s))

\* cli_send_str: the string is handed to cli_if_transmit (a reliable channel).
cli_send_str(c, str) == [c EXCEPT !.tx = Append(@, str)]

\* A cli_printf without the test of gb_is_init.
cli_printf_unguarded(c, text) ==
    cli_send_str(cli_send_str([c EXCEPT !.txbuf = text], text),
                 Str(CLI_CFG_TERMINATION_STRING))

\* cli_printf: the rendered text, then the termination string; nothing before
\* initialization.
cli_printf(c, text) ==
    IF c.init
    THEN cli_send_str(cli_send_str([c EXCEPT !.txbuf = text], text),
                      Str(CLI_CFG_TERMINATION_STRING))
    ELSE c

\* "%-25s": the text left adjusted in a field of n characters.
RECURSIVE PadRight(_, _)
PadRight(text, n) == IF Len(text) >= n THEN text ELSE PadRight(text \o " ", n)

\* cli_printf of each text of a sequence, in order.
RECURSIVE PrintAll(_, _)
PrintAll(c, texts) ==
    IF texts = <<>> THEN c
    ELSE PrintAll(cli_printf(c, Head(texts)), Tail(texts))

\* The lines the transport received: each text that a termination string
\* follows.
TxLines(out) ==
    LET ends == { i \in 2 .. Len(out) : out[i] = Str(CLI_CFG_TERMINATION_STRING)
                                         /\ out[i - 1] # Str(CLI_CFG_TERMINATION_STRING) }
    IN  [ k \in 1 .. Cardinality(ends) |->
            out[(CHOOSE i \in ends : Cardinality({ j \in ends : j <= i }) = k) - 1] ]

----------------------------------------------------------------------------
(* Collaborators configured outside cli.c: the logical channels            *)

\* Number of logical channels (cli_ch_opt_t) and their names.
eCLI_CH_NUM_OF == 3

cli_cfg_get_ch_name(ch) == <<"WARNING", "ERROR", "INFO">>[ch + 1]

----------------------------------------------------------------------------
(* sscanf( p_attr, "%u,%u", &ch, &en )                                     *)

Digits == <<"0", "1", "2", "3", "4", "5", "6", "7", "8", "9">>

IsDigit(ch) == \E d \in 1 .. 10 : Digits[d] = ch

DigitVal(ch) == (CHOOSE d \in 1 .. 10 : Digits[d] = ch) - 1

\* White space skipped by a conversion.
RECURSIVE SkipWs(_, _)
SkipWs(s, i) ==
    IF CharAt(s, i) \in {SP, "\t", LF, CR, "\f"} THEN SkipWs(s, i + 1) ELSE i

RECURSIVE ScanDigits(_, _, _)
ScanDigits(s, i, acc) ==
    IF IsDigit(CharAt(s, i))
    THEN ScanDigits(s, i + 1, acc * 10 + DigitVal(CharAt(s, i)))
    ELSE [val |-> acc, next |-> i]

\* One "%u" conversion at C index i: white space, an optional sign, digits.
\* The value is stored in a 32-bit unsigned (the lines of the model hold
\* numbers of a few digits).
ScanU(s, i) ==
    LET j    == SkipWs(s, i)
        sign == CharAt(s, j) \in {"+", "-"}
        k    == IF sign THEN j + 1 ELSE j
        r    == ScanDigits(s, k, 0)
    IN  IF ~IsDigit(CharAt(s, k))
        THEN [ok |-> FALSE, val |-> 0, next |-> k]
        ELSE [ok   |-> TRUE,
              val  |-> IF CharAt(s, j) = "-" THEN ToUint32(0 - r.val) ELSE r.val,
              next |-> r.next]

\* The number of conversions made, and the values converted.
sscanf_u_u(s) ==
    LET a == ScanU(s, 0)
        b == ScanU(s, a.next + 1)
    IN  IF ~a.ok THEN [n |-> 0, ch |-> 0, en |-> 0]
        ELSE IF CharAt(s, a.next) # "," \/ ~b.ok
             THEN [n |-> 1, ch |-> a.val, en |-> 0]
             ELSE [n |-> 2, ch |-> a.val, en |-> b.val]

----------------------------------------------------------------------------
(* The build and the static data of the modules                           *)

\* The build and its NVM device: the escape count limit of cli_parser_hndl,
\* the configuration switches CLI_CFG_PAR_USE_EN and CLI_CFG_STREAM_NVM_EN,
\* the object that follows par_list in the layout of cli_live_watch_t, and the
\* calls of the NVM interface that can fail on the device.
DefaultCfg ==
    [escape_limit |-> EscapeLimit, par_use_en |-> FALSE, stream_nvm_en |-> FALSE,
     after_par_list |-> "period", nvm_faults |-> {}]

\* Capacity of the live watch list.
CLI_CFG_PAR_MAX_IN_LIVE_WATCH == 2

\* Period of cli_hndl in milliseconds.
CLI_CFG_HNDL_PERIOD_MS == 10

\* g_cli_live_watch as initialized; pad is the padding behind par_list where
\* the layout has one, oob notes a write behind par_list.
LiveWatchDefault ==
    [par_list |-> [i \in 0 .. (CLI_CFG_PAR_MAX_IN_LIVE_WATCH - 1) |-> 0],
     period |-> 20, period_cnt |-> 20 \div CLI_CFG_HNDL_PERIOD_MS,
     num_of |-> 0, active |-> FALSE, pad |-> 0, oob |-> FALSE]

\* An NVM region that was never written, and the static par_list of
\* cli_nvm_read (rd). saved notes the live watch data of the last cli_nvm_write
\* that met no failure of the NVM interface (written).
NvmBlank ==
    [sign |-> "blank",
     head |-> [stream_period |-> 0, num_of |-> 0, active |-> 0, crc |-> 0],
     par |-> [i \in 0 .. (CLI_CFG_PAR_MAX_IN_LIVE_WATCH - 1) |-> 0],
     rd |-> [i \in 0 .. (CLI_CFG_PAR_MAX_IN_LIVE_WATCH - 1) |-> 0],
     saved |-> LiveWatchDefault, written |-> FALSE]

\* Capacity of the channel list, samples the sample buffer holds, and the
\* longest wait for a trigger (in samples) that is followed.
CLI_CFG_PAR_MAX_IN_OSCI == 2
CLI_OSCI_SAMP_BUF_NUM_OF_SAMP == 2
MaxPretriggerSamples == 3

\* g_cli_osci = {0} and the static counters of the sampling functions.
OsciReset ==
    [state |-> "IDLE", trig_type |-> "NONE", trig_idx |-> 0, ch_num_of |-> 0,
     ch_list |-> [k \in 0 .. (CLI_CFG_PAR_MAX_IN_OSCI - 1) |-> 0],
     idx |-> 0, num_of_samp |-> 0, downsample_factor |-> 0, samp_cnt |-> 0,
     pretrigger_samp_cnt |-> 0, buf |-> 0]

----------------------------------------------------------------------------
(* cli_nvm.c: the live watch data in NVM                                   *)

\* Byte k of a uint16_t array in memory (little endian).
ListByte(list, k) ==
    IF k % 2 = 0 THEN list[k \div 2] % 256 ELSE list[k \div 2] \div 256

\* cli_nvm_calc_crc_whole: cli_nvm_calc_crc (CRC-16-CCITT, seed 0x1234,
\* polynomial 0x1021) of stream_period, num_of and active of the header,
\* exclusive-or cli_nvm_calc_crc of CLI_CFG_PAR_MAX_IN_LIVE_WATCH bytes of the
\* parameter list.
cli_nvm_calc_crc_whole(p_header, p_par_list) ==
    LET RECURSIVE Xor(_, _)
        Xor(a, b) == IF a = 0 THEN b
                     ELSE IF b = 0 THEN a
                     ELSE ((a + b) % 2) + 2 * Xor(a \div 2, b \div 2)
        RECURSIVE Shift(_, _)
        Shift(crc16, j) ==
            IF j = 0 THEN crc16
            ELSE Shift(IF crc16 >= 32768 THEN Xor((crc16 * 2) % 65536, 4129)
                       ELSE (crc16 * 2) % 65536, j - 1)
        RECURSIVE cli_nvm_calc_crc(_, _)
        cli_nvm_calc_crc(p_data, size) ==
            IF size = 0 THEN 4660
            ELSE LET crc16 == cli_nvm_calc_crc(p_data, size - 1)
                 IN  IF crc16 = crc16   \* crc16 is evaluated before the bit loop
                     THEN Shift(Xor(crc16, p_data[size] * 256), 8) ELSE 0
    IN  Xor(cli_nvm_calc_crc(<< p_header.stream_period % 256,
                                (p_header.stream_period \div 256) % 256,
                                (p_header.stream_period \div 65536) % 256,
                                p_header.stream_period \div 16777216,
                                p_header.num_of, p_header.active >>, 6),
            cli_nvm_calc_crc([n \in 1 .. CLI_CFG_PAR_MAX_IN_LIVE_WATCH |->
                                 ListByte(p_par_list, n - 1)],
                             CLI_CFG_PAR_MAX_IN_LIVE_WATCH))

\* The calls of the NVM interface in cli_nvm_write; each can fail.
NvmWriteOps == {"erase", "header_write", "par_list_write", "signature", "sync"}

\* cli_printf of the text when the case holds.
PrintIf(c, case, text) == IF case THEN cli_printf(c, text) ELSE c

\* A write of the region in which the signature is only touched by the last
\* call.
RECURSIVE NvmAfter_unguarded(_, _, _, _)
NvmAfter_unguarded(region, lw, fail, done) ==
    IF done = 0 THEN region
    ELSE LET r      == NvmAfter_unguarded(region, lw, fail, done - 1)
             op     == <<"erase", "header_write", "par_list_write", "signature", "sync">>[done]
             header == [stream_period |-> lw.period, num_of |-> lw.num_of,
                        active |-> IF lw.active THEN 1 ELSE 0, crc |-> 0]
             crc    == cli_nvm_calc_crc_whole(header, lw.par_list)
         IN  IF op = fail THEN r
             ELSE CASE op = "header_write" ->
                          [r EXCEPT !.head = [header EXCEPT !.crc = crc]]
                    [] op = "par_list_write" ->
                          [r EXCEPT !.par = [n \in 0 .. (CLI_CFG_PAR_MAX_IN_LIVE_WATCH - 1) |->
                                               ListByte(lw.par_list, n)]]
                    [] op = "signature" -> [r EXCEPT !.sign = "CLI_NVM_SIGN"]
                    [] OTHER -> r

\* The region after the first `done` calls of cli_nvm_write (in their order:
\* erase, header_write, par_list_write, signature, sync) for the live watch
\* data lw; the call `fail` fails and leaves its part of the region as it
\* was.  The header is written with its signature field 0.
RECURSIVE NvmAfter(_, _, _, _)
NvmAfter(region, lw, fail, done) ==
    IF done = 0 THEN region
    ELSE LET r      == NvmAfter(region, lw, fail, done - 1)
             op     == <<"erase", "header_write", "par_list_write", "signature", "sync">>[done]
             header == [stream_period |-> lw.period, num_of |-> lw.num_of,
                        active |-> IF lw.active THEN 1 ELSE 0, crc |-> 0]
             crc    == cli_nvm_calc_crc_whole(header, lw.par_list)
         IN  IF op = fail THEN r
             ELSE CASE op = "erase" -> [r EXCEPT !.sign = "blank"]
                    [] op = "header_write" ->
                          [r EXCEPT !.sign = "0", !.head = [header EXCEPT !.crc = crc]]
                    [] op = "par_list_write" ->
                          [r EXCEPT !.par = [n \in 0 .. (CLI_CFG_PAR_MAX_IN_LIVE_WATCH - 1) |->
                                               ListByte(lw.par_list, n)]]
                    [] op = "signature" -> [r EXCEPT !.sign = "CLI_NVM_SIGN"]
                    [] OTHER -> r

\* cli_nvm_write of c.lw; the call `fail` of the NVM interface fails.
cli_nvm_write(c, fail) ==
    LET c1 == PrintIf(c, fail = "erase", "ERR, CLI NVM error during signature corruption!")
        c2 == PrintIf(c1, fail = "header_write", "ERR, CLI NVM error during header write!")
        c3 == PrintIf(c2, fail = "par_list_write", "ERR, CLI NVM error during parameter list writing!")
        c4 == PrintIf(c3, fail = "signature", "ERR, CLI NVM error during signature write!")
    IN  [c4 EXCEPT
           !.ret = IF fail = "none" THEN eCLI_OK ELSE eCLI_ERROR_NVM,
           !.nvm = [NvmAfter(c.nvm, c.lw, fail, Cardinality(NvmWriteOps)) EXCEPT
                      !.saved = IF fail = "none" THEN c.lw ELSE c.nvm.saved,
                      !.written = (fail = "none")]]

\* cli_nvm_read into c.lw; the call `fail` of the NVM interface ("header" or
\* "par_list") fails. cli_nvm_read_par_list puts CLI_CFG_PAR_MAX_IN_LIVE_WATCH
\* bytes of the region at the start of the static par_list.
cli_nvm_read(c, fail) ==
    LET byte(k) == IF k < CLI_CFG_PAR_MAX_IN_LIVE_WATCH THEN c.nvm.par[k]
                   ELSE ListByte(c.nvm.rd, k)
        cli_nvm_read_par_list ==
            [i \in 0 .. (CLI_CFG_PAR_MAX_IN_LIVE_WATCH - 1) |->
                byte(2 * i) + 256 * byte(2 * i + 1)]
        header   == c.nvm.head
        par_list == IF fail = "par_list" THEN c.nvm.rd
                    ELSE cli_nvm_read_par_list
        c1 == PrintIf(c, fail = "par_list", "ERR, CLI NVM error during parameter list reading!")
    IN  IF fail = "header"
        THEN [cli_printf(c, "ERR, CLI NVM error during header read!")
                EXCEPT !.ret = eCLI_ERROR_NVM]
        ELSE IF c.nvm.sign # "CLI_NVM_SIGN"
        THEN [cli_printf(c, "ERR, CLI NVM signature corrupted!")
                EXCEPT !.ret = eCLI_ERROR]
        ELSE IF cli_nvm_calc_crc_whole(header, par_list) # header.crc
        THEN [cli_printf(c1, "ERR, CLI NVM CRC corrupted!")
                EXCEPT !.ret = eCLI_ERROR, !.nvm.rd = par_list]
        ELSE [c1 EXCEPT
                !.ret = IF fail = "par_list" THEN eCLI_ERROR_NVM ELSE eCLI_OK,
                !.nvm.rd = par_list,
                !.lw = [c.lw EXCEPT
                          !.par_list = [i \in DOMAIN c.lw.par_list |->
                                          IF i < header.num_of THEN par_list[i]
                                          ELSE c.lw.par_list[i]],
                          !.period = header.stream_period,
                          !.period_cnt = header.stream_period \div CLI_CFG_HNDL_PERIOD_MS,
                          !.num_of = header.num_of,
                          !.active = header.active # 0,
                          !.oob = c.lw.oob \/ header.num_of > CLI_CFG_PAR_MAX_IN_LIVE_WATCH]]

----------------------------------------------------------------------------
(* Command tables                                                          *)

\* The commands of g_cli_basic_table in every build.
g_cli_basic_core == <<
    [p_name |-> <<"h","e","l","p">>,     p_func |-> "cli_help",
     p_help |-> "Print all commands help"],
    [p_name |-> <<"r","e","s","e","t">>, p_func |-> "cli_reset",
     p_help |-> "Reset device"],
    [p_name |-> <<"s","w","_","v","e","r">>, p_func |-> "cli_sw_version",
     p_help |-> "Print device software version"],
    [p_name |-> <<"h","w","_","v","e","r">>, p_func |-> "cli_hw_version",
     p_help |-> "Print device hardware version"],
    [p_name |-> <<"p","r","o","j","_","i","n","f","o">>, p_func |-> "cli_proj_info",
     p_help |-> "Print project informations"],
    [p_name |-> <<"c","h","_","i","n","f","o">>, p_func |-> "cli_ch_info",
     p_help |-> "Print COM channel informations"],
    [p_name |-> <<"c","h","_","e","n">>, p_func |-> "cli_ch_en",
     p_help |-> "Enable/disable COM channel [chEnum][en]"] >>

\* The commands CLI_CFG_PAR_USE_EN == 1 adds to g_cli_basic_table; the last
\* one is there with CLI_CFG_STREAM_NVM_EN == 1 only.
g_cli_basic_par == <<
    [p_name |-> <<"p","a","r","_","p","r","i","n","t">>, p_func |-> "cli_par_print",
     p_help |-> "Prints parameters"],
    [p_name |-> <<"p","a","r","_","s","e","t">>, p_func |-> "cli_par_set",
     p_help |-> "Set parameter [parID,value]"],
    [p_name |-> <<"p","a","r","_","g","e","t">>, p_func |-> "cli_par_get",
     p_help |-> "Get parameter [parID]"],
    [p_name |-> <<"p","a","r","_","d","e","f">>, p_func |-> "cli_par_def",
     p_help |-> "Set parameter to default [parID]"],
    [p_name |-> <<"p","a","r","_","d","e","f","_","a","l","l">>, p_func |-> "cli_par_def_all",
     p_help |-> "Set all parameters to default"],
    [p_name |-> <<"p","a","r","_","s","a","v","e">>, p_func |-> "cli_par_store",
     p_help |-> "Save parameter to NVM"],
    [p_name |-> <<"s","t","a","t","u","s","_","s","t","a","r","t">>, p_func |-> "cli_status_start",
     p_help |-> "Start data streaming"],
    [p_name |-> <<"s","t","a","t","u","s","_","s","t","o","p">>, p_func |-> "cli_status_stop",
     p_help |-> "Stop data streaming"],
    [p_name |-> <<"s","t","a","t","u","s","_","d","e","s">>, p_func |-> "cli_status_des",
     p_help |-> "Status description"],
    [p_name |-> <<"s","t","a","t","u","s","_","r","a","t","e">>, p_func |-> "cli_status_rate",
     p_help |-> "Change data streaming period [miliseconds]"],
    [p_name |-> <<"s","t","a","t","u","s","_","i","n","f","o">>, p_func |-> "cli_status_info",
     p_help |-> "Get streaming configuration info"],
    [p_name |-> <<"s","t","a","t","u","s","_","s","a","v","e">>, p_func |-> "cli_status_save",
     p_help |-> "Save streaming into to NVM"] >>

\* Basic CLI commands of the build.
g_cli_basic_table ==
    IF ~cfg.par_use_en THEN g_cli_basic_core
    ELSE IF cfg.stream_nvm_en THEN g_cli_basic_core \o g_cli_basic_par
    ELSE g_cli_basic_core \o SubSeq(g_cli_basic_par, 1, Len(g_cli_basic_par) - 1)

gu32_basic_cmd_num_of == Len(g_cli_basic_table)

\* Size of the table pointer array, and the most commands a table may hold.
CLI_CFG_MAX_NUM_OF_USER_TABLES == 2
CLI_CFG_MAX_NUM_OF_COMMANDS    == 3

UserTblIdx == 0 .. (CLI_CFG_MAX_NUM_OF_USER_TABLES - 1)

\* An empty slot of gp_cli_user_tables, and a NULL help text or function.
NULL_TABLE == "NULL_TABLE"
NULL_PTR   == "NULL_PTR"

\* One command of a user table; the handler is known by the table and name.
UserCmd(tab, name, help) ==
    [p_name |-> name, p_func |-> tab \o "." \o Str(name), p_help |-> help]

\* The tables a module may pass to cli_register_cmd_table: "A" and "B" are
\* well formed, "Bad" has a command without help string, "BadName" one
\* without name, "BadFunc" one without function and "Big" has more commands
\* than CLI_CFG_MAX_NUM_OF_COMMANDS.
UserTables == {"A", "B", "Bad", "BadName", "BadFunc", "Big"}

g_table_A ==
    [num_of |-> 3,
     cmd |-> << UserCmd("A", <<"p","a","r">>, "par help"),
                UserCmd("A", <<"p","a","r","_","s","e","t">>, "par_set help"),
                UserCmd("A", <<"d","u","p">>, "dup of A") >>]

g_table_B ==
    [num_of |-> 3,
     cmd |-> << UserCmd("B", <<"d","u","p">>, "dup of B"),
                UserCmd("B", <<"h","e","l","p">>, "help of B"),
                UserCmd("B", <<"c","m","d">>, "cmd help") >>]

g_table_Bad ==
    [num_of |-> 2,
     cmd |-> << UserCmd("Bad", <<"n","o","p","e">>, "nope help"),
                UserCmd("Bad", <<"b","a","d">>, NULL_PTR) >>]

g_table_BadName ==
    [num_of |-> 2,
     cmd |-> << UserCmd("BadName", <<"n","o","p","e">>, "nope help"),
                [p_name |-> NULL, p_func |-> "BadName.NULL", p_help |-> "help"] >>]

g_table_BadFunc ==
    [num_of |-> 2,
     cmd |-> << [p_name |-> <<"b","a","d">>, p_func |-> NULL_PTR, p_help |-> "help"],
                UserCmd("BadFunc", <<"n","o","p","e">>, "nope help") >>]

g_table_Big ==
    [num_of |-> CLI_CFG_MAX_NUM_OF_COMMANDS + 1,
     cmd |-> [ i \in 1 .. (CLI_CFG_MAX_NUM_OF_COMMANDS + 1) |->
                 UserCmd("Big", <<"b","i","g">>, "big help") ]]

\* The table a table pointer refers to.
Table(t) ==
    CASE t = "A"   -> g_table_A
      [] t = "B"   -> g_table_B
      [] t = "Bad" -> g_table_Bad
      [] t = "BadName" -> g_table_BadName
      [] t = "BadFunc" -> g_table_BadFunc
      [] t = "Big" -> g_table_Big

----------------------------------------------------------------------------
(* Command handlers.  A handler works on a context c: the strings sent     *)
(* (tx), the calls made (calls) and the channel enable flags (ch).         *)

\* An unknown command that is not answered.
cli_unknown_silent(c) == c

cli_unknown(c) == cli_printf(c, "ERR, Unknown command!")

HelpSeparator == "--------------------------------------------------------"

\* A help that shows the first command of a table only.
HelpLines_first_only(cmds) ==
    [ i \in 1 .. 1 |-> PadRight(Str(cmds[i].p_name), 25) \o cmds[i].p_help ]

\* "%-25s%s" of each command of a table.
HelpLines(cmds) ==
    [ i \in 1 .. Len(cmds) |-> PadRight(Str(cmds[i].p_name), 25) \o cmds[i].p_help ]

\* The help of the user tables from slot idx on: a separator, then the
\* commands, for every slot that holds a table.
RECURSIVE UserHelpLines(_)
UserHelpLines(idx) ==
    IF idx >= CLI_CFG_MAX_NUM_OF_USER_TABLES THEN <<>>
    ELSE (IF gp_cli_user_tables[idx] # NULL_TABLE
          THEN <<HelpSeparator>> \o HelpLines(Table(gp_cli_user_tables[idx]).cmd)
          ELSE <<>>) \o UserHelpLines(idx + 1)

cli_help(c, p_attr) ==
    IF p_attr = NULL
    THEN PrintAll(c, << " ", "    List of device commands ", HelpSeparator >>
                     \o HelpLines(g_cli_basic_table)
                     \o UserHelpLines(0)
                     \o << HelpSeparator >>)
    ELSE cli_unknown(c)

cli_reset(c, p_attr) ==
    IF p_attr = NULL
    THEN LET c1 == cli_printf(c, "OK, Reseting device...")
         IN  [c1 EXCEPT !.calls = Append(@, [func |-> "cli_if_device_reset", attr |-> NULL])]
    ELSE cli_unknown(c)

\* cli_sw_version, cli_hw_version, cli_proj_info (CLI_CFG_INTRO_STRING_EN == 0)
cli_version(c, p_attr) ==
    IF p_attr = NULL THEN cli_printf(c, "WAR, Not used...") ELSE cli_unknown(c)

ChInfoLine(c, ch) ==
    "    0" \o Digits[ch + 1] \o "    " \o PadRight(cli_cfg_get_ch_name(ch), 20)
        \o (IF c.ch[ch] THEN "Enable" ELSE "Disable")

cli_ch_info(c, p_attr) ==
    IF p_attr = NULL
    THEN PrintAll(c, << HelpSeparator, "        Communication Channels Info",
                        HelpSeparator,
                        "  " \o PadRight("chEnum", 8) \o PadRight("Name", 20) \o "State",
                        " ------------------------------------" >>
                     \o [ i \in 1 .. eCLI_CH_NUM_OF |-> ChInfoLine(c, i - 1) ]
                     \o << HelpSeparator >>)
    ELSE cli_unknown(c)

\* A cli_ch_en that answers without touching the channel table.
cli_ch_en_answer_only(c, p_attr) ==
    IF p_attr = NULL THEN cli_unknown(c)
    ELSE LET r == sscanf_u_u(p_attr)
         IN  IF r.n # 2 THEN cli_unknown(c)
             ELSE IF r.ch < eCLI_CH_NUM_OF
                  THEN cli_printf(c, "OK, " \o (IF r.en = 1 THEN "Enabling" ELSE "Disabling")
                                       \o " channel " \o cli_cfg_get_ch_name(r.ch))
                  ELSE cli_printf(c, "ERR, Invalid chEnum!")

\* cli_ch_en
cli_ch_en(c, p_attr) ==
    IF p_attr = NULL THEN cli_unknown(c)
    ELSE LET r == sscanf_u_u(p_attr)
         IN  IF r.n # 2 THEN cli_unknown(c)
             ELSE IF r.ch < eCLI_CH_NUM_OF
                  THEN cli_printf([c EXCEPT !.ch[r.ch] = (r.en # 0)],
                                  "OK, " \o (IF r.en = 1 THEN "Enabling" ELSE "Disabling")
                                    \o " channel " \o cli_cfg_get_ch_name(r.ch))
                  ELSE cli_printf(c, "ERR, Invalid chEnum!")

\* The parameter table of the application, by parameter number: one
\* parameter that can be written and one that is read only, both uint8_t.
ParTable ==
    << [id |-> 1, name |-> "p1", access |-> "ePAR_ACCESS_RW", max |-> 9, def |-> 0],
       [id |-> 2, name |-> "p2", access |-> "ePAR_ACCESS_RO", max |-> 9, def |-> 0] >>

\* par_get_num_by_id: the number of the parameter with the ID, -1 when no
\* parameter has it (a status other than ePAR_OK).
par_get_num_by_id(id) ==
    LET nums == { n \in 0 .. (Len(ParTable) - 1) : ParTable[n + 1].id = id }
    IN  IF nums = {} THEN -1 ELSE CHOOSE n \in nums : TRUE

\* par_set: a value above the maximum of the parameter is not accepted, the
\* status is then not ePAR_OK (0).
par_set(c, par_num, val) ==
    LET c1 == [c EXCEPT !.calls = Append(@, [func |-> "par_set", attr |-> <<>>])]
    IN  IF val <= ParTable[par_num + 1].max
        THEN [c1 EXCEPT !.par[par_num] = val, !.ret = 0]
        ELSE [c1 EXCEPT !.ret = 1]

\* "%u" of a number.
RECURSIVE UToStr(_)
UToStr(n) ==
    IF n < 10 THEN Digits[n + 1] ELSE UToStr(n \div 10) \o Digits[(n % 10) + 1]

\* cli_par_set; "%u,%f" reads the value as "%u" does where the value is
\* written with digits only, and (uint8_t) keeps its low byte.
cli_par_set(c, p_attr) ==
    IF p_attr = NULL THEN cli_unknown(c)
    ELSE LET r       == sscanf_u_u(p_attr)
             par_num == par_get_num_by_id(r.ch)
             set     == par_set(c, par_num, r.en % 256)
             said    == cli_printf(set, "OK,PAR_SET=" \o UToStr(r.en % 256))
         IN  IF r.n # 2 THEN cli_printf(c, "ERR, Wrong command!")
             ELSE IF par_num < 0 THEN cli_printf(c, "ERR, Wrong parameter ID!")
             ELSE IF ParTable[par_num + 1].access # "ePAR_ACCESS_RW"
                  THEN cli_printf(c, "ERR, Parameter is read only!")
             ELSE PrintIf(said, set.ret # 0, "ERR, err_code: " \o UToStr(set.ret))

\* A cli_par_get that reads the first parameter when the ID is unknown.
cli_par_get_unchecked(c, p_attr) ==
    IF p_attr = NULL THEN cli_unknown(c)
    ELSE LET r       == ScanU(p_attr, 0)
             found   == par_get_num_by_id(r.val)
             par_num == IF found < 0 THEN 0 ELSE found
         IN  IF ~r.ok THEN cli_printf(c, "ERR, Wrong command!")
             ELSE cli_printf([c EXCEPT !.calls = Append(@, [func |-> "par_get",
                                                           attr |-> <<>>])],
                             "OK,PAR_GET=" \o UToStr(c.par[par_num]))

\* cli_par_get; par_get of a parameter of the table returns ePAR_OK.
cli_par_get(c, p_attr) ==
    IF p_attr = NULL THEN cli_unknown(c)
    ELSE LET r       == ScanU(p_attr, 0)
             par_num == par_get_num_by_id(r.val)
         IN  IF ~r.ok THEN cli_printf(c, "ERR, Wrong command!")
             ELSE IF par_num < 0 THEN cli_printf(c, "ERR, Wrong parameter ID!")
             ELSE cli_printf([c EXCEPT !.calls = Append(@, [func |-> "par_get",
                                                           attr |-> <<>>])],
                             "OK,PAR_GET=" \o UToStr(c.par[par_num]))

\* The entry of par_list at an index; at CLI_CFG_PAR_MAX_IN_LIVE_WATCH it is
\* the object behind the array: the low half of period, or the padding.
WatchEntry(lw, idx) ==
    IF idx < CLI_CFG_PAR_MAX_IN_LIVE_WATCH THEN lw.par_list[idx]
    ELSE IF cfg.after_par_list = "period" THEN lw.period % 65536
    ELSE lw.pad

\* g_cli_live_watch.par_list[ num_of ] = par_num; num_of++
WatchAppend(lw, par_num) ==
    LET idx == lw.num_of
        put == IF idx < CLI_CFG_PAR_MAX_IN_LIVE_WATCH
               THEN [lw EXCEPT !.par_list[idx] = par_num]
               ELSE IF cfg.after_par_list = "period"
               THEN [lw EXCEPT !.period = (@ \div 65536) * 65536 + par_num,
                               !.oob = TRUE]
               ELSE [lw EXCEPT !.pad = par_num, !.oob = TRUE]
    IN  [put EXCEPT !.num_of = idx + 1]

\* cli_status_des: the loop over the IDs of the attribute ("%d%n"), then the
\* description of the list ("%g" of the period in seconds).
cli_status_des(c, p_attr) ==
    LET RECURSIVE Loop(_, _)
        Loop(c0, i) ==
            LET r       == ScanU(p_attr, i)
                par_num == par_get_num_by_id(r.val)
            IN  IF c0.lw.num_of > CLI_CFG_PAR_MAX_IN_LIVE_WATCH \/ ~r.ok
                THEN [c |-> c0, invalid_par |-> FALSE]
                ELSE IF par_num < 0
                THEN [c |-> cli_printf([c0 EXCEPT !.lw.num_of = 0],
                                       "ERR, Wrong parameter ID! ID: " \o UToStr(r.val)
                                         \o " does not exsist!"),
                      invalid_par |-> TRUE]
                ELSE Loop([c0 EXCEPT !.lw = WatchAppend(@, par_num)],
                          IF CharAt(p_attr, r.next) = "," THEN r.next + 1 ELSE r.next)
        RECURSIVE ZeroPad(_, _)
        ZeroPad(text, width) ==
            IF Len(text) < width THEN ZeroPad("0" \o text, width) ELSE text
        RECURSIVE Strip(_, _)
        Strip(ms, width) ==
            IF ms % 10 = 0 THEN Strip(ms \div 10, width - 1)
            ELSE ZeroPad(UToStr(ms), width)
        seconds(period) ==
            IF period % 1000 = 0 THEN UToStr(period \div 1000)
            ELSE UToStr(period \div 1000) \o "." \o Strip(period % 1000, 3)
        RECURSIVE Names(_, _)
        Names(c0, idx) ==
            IF idx >= c0.lw.num_of THEN c0
            ELSE Names(cli_send_str(c0, "," \o ParTable[WatchEntry(c0.lw, idx) + 1].name
                                           \o ",d,1"),
                       idx + 1)
        done == Loop([c EXCEPT !.lw.num_of = 0], 0)
    IN  IF p_attr = NULL THEN cli_unknown(c)
        ELSE IF done.c.lw.num_of > 0
                /\ done.c.lw.num_of <= CLI_CFG_PAR_MAX_IN_LIVE_WATCH
        THEN cli_printf(Names(cli_send_str(done.c, "OK," \o seconds(done.c.lw.period)), 0),
                        "")
        ELSE PrintIf(done.c, ~done.invalid_par,
                     "ERR, Invalid number of streaming parameter!")

\* cli_status_save; the call c.fail of the NVM interface fails.
cli_status_save(c, p_attr) ==
    IF p_attr = NULL
    THEN LET w == cli_nvm_write(c, c.fail)
         IN  IF w.ret = eCLI_OK
             THEN cli_printf(w, "OK, Streaming info stored to NVM successfully")
             ELSE cli_printf(w, "ERR, Error while storing streaming info to NVM!")
    ELSE cli_unknown(c)

\* cli_status_start: the streaming starts when the list holds a parameter.
cli_status_start(c, p_attr) ==
    IF p_attr # NULL THEN cli_unknown(c)
    ELSE IF c.lw.num_of > 0
         THEN cli_printf([c EXCEPT !.lw.active = TRUE], "OK, Streaming started!")
         ELSE cli_printf(c, "ERR, Streaming parameter list empty!")

\* cli_status_stop
cli_status_stop(c, p_attr) ==
    IF p_attr # NULL THEN cli_unknown(c)
    ELSE cli_printf([c EXCEPT !.lw.active = FALSE], "OK, Streaming stopped!")

\* A change of rate that takes every period it can scan.
cli_status_rate_unchecked(c, p_attr) ==
    IF p_attr = NULL THEN cli_unknown(c)
    ELSE LET r == ScanU(p_attr, 0)
         IN  IF ~r.ok THEN cli_printf(c, "ERR, Wrong command!")
             ELSE cli_printf([c EXCEPT !.lw.period = r.val,
                                       !.lw.period_cnt = r.val \div CLI_CFG_HNDL_PERIOD_MS],
                             "OK, Period changed to " \o UToStr(r.val) \o " ms")

\* cli_status_rate: the period ("%d") within the range and a multiple of the
\* handler period becomes the period and the period count of the live watch.
cli_status_rate(c, p_attr) ==
    IF p_attr = NULL THEN cli_unknown(c)
    ELSE LET r      == ScanU(p_attr, 0)
             period == r.val
         IN  IF ~r.ok THEN cli_printf(c, "ERR, Wrong command!")
             ELSE IF ~(period >= CLI_CFG_HNDL_PERIOD_MS /\ period <= 60000)
             THEN cli_printf(c, "ERR, Period out of valid range!")
             ELSE IF period % CLI_CFG_HNDL_PERIOD_MS # 0
             THEN cli_printf(c, "ERR, Wanted period is not multiple of \"CLI_CFG_HNDL_PERIOD_MS\"!")
             ELSE cli_printf([c EXCEPT !.lw.period = period,
                                       !.lw.period_cnt = period \div CLI_CFG_HNDL_PERIOD_MS],
                             "OK, Period changed to " \o UToStr(period) \o " ms")

\* cli_par_live_watch_hndl: the values of the parameters of the list, while
\* the live watch is active.
cli_par_live_watch_hndl(c) ==
    LET RECURSIVE Values(_, _)
        Values(c0, par_idx) ==
            IF par_idx >= c0.lw.num_of THEN c0
            ELSE LET par_num == WatchEntry(c0.lw, par_idx)
                     text == IF par_num \in DOMAIN c0.par
                             THEN UToStr(c0.par[par_num]) ELSE "0"
                     sent == cli_send_str(c0, text)
                 IN  Values(IF par_idx < c0.lw.num_of - 1
                            THEN cli_send_str(sent, ",") ELSE sent,
                            par_idx + 1)
    IN  IF c.lw.active /\ c.lw.num_of > 0 THEN cli_printf(Values(c, 0), "") ELSE c

\* p_func( attr ): the call is noted, then the handler runs.  A handler of a
\* user table is code outside this module: only the call is noted.
CallFunc(c, p_func, attr) ==
    LET c1 == [c EXCEPT !.calls = Append(@, [func |-> p_func, attr |-> attr])]
    IN  CASE p_func = "cli_help"       -> cli_help(c1, attr)
          [] p_func = "cli_reset"      -> cli_reset(c1, attr)
          [] p_func \in {"cli_sw_version", "cli_hw_version", "cli_proj_info"}
                                       -> cli_version(c1, attr)
          [] p_func = "cli_ch_info"    -> cli_ch_info(c1, attr)
          [] p_func = "cli_ch_en"      -> cli_ch_en(c1, attr)
          [] p_func = "cli_par_set"    -> cli_par_set(c1, attr)
          [] p_func = "cli_par_get"    -> cli_par_get(c1, attr)
          [] p_func = "cli_status_des" -> cli_status_des(c1, attr)
          [] p_func = "cli_status_start" -> cli_status_start(c1, attr)
          [] p_func = "cli_status_stop" -> cli_status_stop(c1, attr)
          [] p_func = "cli_status_rate" -> cli_status_rate(c1, attr)
          [] p_func = "cli_status_save" -> cli_status_save(c1, attr)
          [] OTHER                     -> c1

----------------------------------------------------------------------------
(* Command splitter and table search                                       *)

\* The first C index below size at which str ends or holds target_char;
\* -1 when there is none.
FindStop(str, target_char, size) ==
    LET stops == { i \in 0 .. (size - 1) : CharAt(str, i) \in {NUL, target_char} }
    IN  IF stops = {} THEN -1
        ELSE CHOOSE i \in stops : \A j \in stops : i <= j

\* A search that returns the sub-string from the target_char on.
cli_find_char_at(str, target_char, size) ==
    LET ch == FindStop(str, target_char, size)
    IN  IF ch # -1 /\ CharAt(str, ch) = target_char
        THEN SubSeq(str, ch + 1, Len(str))
        ELSE NULL

\* cli_find_char: the sub-string after the first target_char, or NULL.
cli_find_char(str, target_char, size) ==
    LET ch == FindStop(str, target_char, size)
    IN  IF ch # -1 /\ CharAt(str, ch) = target_char
        THEN SubSeq(str, ch + 2, Len(str))
        ELSE NULL

\* cli_find_char_pos: the position of the first target_char, or -1.
cli_find_char_pos(str, target_char, size) ==
    LET ch == FindStop(str, target_char, size)
    IN  IF ch # -1 /\ CharAt(str, ch) = target_char THEN ch ELSE -1

\* cli_calc_cmd_size (the int32_t position is returned as uint32_t)
cli_calc_cmd_size(p_cmd, attr) ==
    IF attr = NULL
    THEN Len(p_cmd)
    ELSE ToUint32(cli_find_char_pos(p_cmd, SP, CLI_CFG_RX_BUF_SIZE))

\* A comparison over the length of the table's name only.
CmdMatches_name_length(p_cmd, cmd_size, name_str) ==
    strncmp0(p_cmd, name_str, Len(name_str))

\* "Valid command?" of both table walks.
CmdMatches(p_cmd, cmd_size, name_str) ==
    strncmp0(p_cmd, name_str, CLI_MAX(cmd_size, Len(name_str)))

\* The index of the first command of a table that matches, 0 when none does.
FirstMatch(cmds, p_cmd, cmd_size) ==
    LET hits == { i \in 1 .. Len(cmds) : CmdMatches(p_cmd, cmd_size, cmds[i].p_name) }
    IN  IF hits = {} THEN 0
        ELSE CHOOSE i \in hits : \A j \in hits : i <= j

\* cli_basic_table_check_and_exe: the context after it and cmd_found.
cli_basic_table_check_and_exe(c, p_cmd, cmd_size, attr) ==
    LET cmd_idx == FirstMatch(g_cli_basic_table, p_cmd, cmd_size)
    IN  IF cmd_idx = 0
        THEN [c |-> c, cmd_found |-> FALSE]
        ELSE [c |-> CallFunc(c, g_cli_basic_table[cmd_idx].p_func, attr),
              cmd_found |-> TRUE]

\* cli_user_table_check_and_exe from slot table_idx on.
RECURSIVE UserTableWalk(_, _, _, _, _)
UserTableWalk(c, p_cmd, cmd_size, attr, table_idx) ==
    IF table_idx >= CLI_CFG_MAX_NUM_OF_USER_TABLES
    THEN [c |-> c, cmd_found |-> FALSE]
    ELSE LET t       == gp_cli_user_tables[table_idx]
             cmd_idx == IF t = NULL_TABLE THEN 0
                        ELSE FirstMatch(Table(t).cmd, p_cmd, cmd_size)
         IN  IF cmd_idx = 0
             THEN UserTableWalk(c, p_cmd, cmd_size, attr, table_idx + 1)
             ELSE [c |-> CallFunc(c, Table(t).cmd[cmd_idx].p_func, attr),
                   cmd_found |-> TRUE]

cli_user_table_check_and_exe(c, p_cmd, cmd_size, attr) ==
    UserTableWalk(c, p_cmd, cmd_size, attr, 0)

\* An execution that searches the user tables before the basic table.
cli_execute_cmd_user_first(c, p_cmd) ==
    LET attr     == cli_find_char(p_cmd, SP, CLI_CFG_RX_BUF_SIZE)
        cmd_size == cli_calc_cmd_size(p_cmd, attr)
        basic    == cli_basic_table_check_and_exe(c, p_cmd, cmd_size, attr)
        user     == cli_user_table_check_and_exe(c, p_cmd, cmd_size, attr)
    IN  IF user.cmd_found THEN user.c
        ELSE IF basic.cmd_found THEN basic.c
        ELSE cli_unknown(c)

\* cli_execute_cmd: the context after the command line p_cmd was executed.
cli_execute_cmd(c, p_cmd) ==
    LET attr     == cli_find_char(p_cmd, SP, CLI_CFG_RX_BUF_SIZE)
        cmd_size == cli_calc_cmd_size(p_cmd, attr)
        basic    == cli_basic_table_check_and_exe(c, p_cmd, cmd_size, attr)
        user     == cli_user_table_check_and_exe(c, p_cmd, cmd_size, attr)
    IN  IF basic.cmd_found THEN basic.c
        ELSE IF user.cmd_found THEN user.c
        ELSE cli_unknown(c)

----------------------------------------------------------------------------
(* Line accumulator                                                        *)

\* The longest end of the byte stream s that is a proper beginning of the
\* termination string: the part of a termination string received so far.
TermProgress(s) ==
    LET fits == { k \in 0 .. (Len(CLI_CFG_TERMINATION_STRING) - 1) :
                    /\ k <= Len(s)
                    /\ SubSeq(s, Len(s) - k + 1, Len(s))
                         = SubSeq(CLI_CFG_TERMINATION_STRING, 1, k) }
        k == CHOOSE n \in fits : \A m \in fits : m <= n
    IN  SubSeq(CLI_CFG_TERMINATION_STRING, 1, k)

\* A cursor that advances whatever its position is.
BufferHasRoom_always(idx) == idx >= 0

\* A buffer that takes one byte more before it overruns.
BufferHasRoom_one_more(idx) == idx < CLI_CFG_RX_BUF_SIZE - 1

\* "Still space in buffer?": the cursor may advance.
BufferHasRoom(idx) == idx < CLI_CFG_RX_BUF_SIZE - 2

\* The while loop of cli_parser_hndl from one evaluation of its condition on.
\* g observes the stream: g.tail holds the last bytes received, g.ovr tells
\* that the line being received has overflowed the buffer.
RECURSIVE ParserLoop(_, _, _, _, _)
ParserLoop(buf, idx, fifo, escape_cnt, g) ==
    IF fifo = <<>>
    THEN \* cli_if_receive: no data
         [buf |-> buf, idx |-> idx, fifo |-> fifo, status |-> eCLI_OK,
          cmd |-> <<>>, reset |-> FALSE, g |-> g, disp_ovr |-> FALSE]
    ELSE LET byte  == Head(fifo)
             buf1  == [buf EXCEPT ![idx] = byte]
             ends  == g.tail \o <<byte>> = CLI_CFG_TERMINATION_STRING
             g1    == [tail |-> TermProgress(g.tail \o <<byte>>),
                       ovr  |-> g.ovr /\ ~ends]
             p_term_str_start == strstr(CStr(buf1, 0), CLI_CFG_TERMINATION_STRING)
             buf2  == memset0(buf1, p_term_str_start,
                              Len(CLI_CFG_TERMINATION_STRING))
         IN  IF ~(escape_cnt < cfg.escape_limit)
             THEN \* the byte was received, the loop body does not run
                  [buf |-> buf1, idx |-> idx, fifo |-> Tail(fifo),
                   status |-> eCLI_OK, cmd |-> <<>>, reset |-> FALSE, g |-> g1,
                   disp_ovr |-> FALSE]
             ELSE IF p_term_str_start # -1
             THEN \* termination string found
                  [buf |-> buf2, idx |-> 0, fifo |-> Tail(fifo),
                   status |-> eCLI_OK, cmd |-> <<CStr(buf2, 0)>>,
                   reset |-> TRUE, g |-> g1, disp_ovr |-> g.ovr]
             ELSE IF BufferHasRoom(idx) /\ g1 = g1   \* g1 is evaluated in this round
             THEN ParserLoop(buf1, idx + 1, Tail(fifo), escape_cnt + 1, g1)
             ELSE \* overrun
                  [buf |-> buf1, idx |-> 0, fifo |-> Tail(fifo),
                   status |-> eCLI_ERROR, cmd |-> <<>>, reset |-> TRUE,
                   g |-> [g1 EXCEPT !.ovr = ~ends], disp_ovr |-> FALSE]

\* A handler that throws away what the transport still holds when it stops.
cli_parser_hndl_flush(fifo) ==
    [ParserLoop(gu8_rx_buffer, buf_idx, fifo, 0, [tail |-> rx_tail, ovr |-> ovr])
        EXCEPT !.fifo = <<>>]

\* cli_parser_hndl with the bytes `fifo` queued in the transport.
cli_parser_hndl(fifo) ==
    ParserLoop(gu8_rx_buffer, buf_idx, fifo, 0, [tail |-> rx_tail, ovr |-> ovr])

\* The bytes buf[0] .. buf[idx-1].
Prefix(buf, idx) == [ i \in 1 .. idx |-> buf[i - 1] ]

NoEvent ==
    [op |-> "none", arg |-> "", status |-> eCLI_OK, cmd |-> <<>>,
     acc |-> <<>>, clean |-> FALSE, ovr |-> FALSE, oob |-> FALSE]

\* The context a call starts with: nothing sent, nothing invoked.
Context ==
    [tx |-> <<>>, calls |-> <<>>, ch |-> ch_en, txbuf |-> gu8_tx_buffer,
     lw |-> g_cli_live_watch, nvm |-> nvm, init |-> gb_is_init,
     ret |-> eCLI_OK, par |-> par_values, fail |-> "none", oob |-> FALSE]

\* cli_hndl with the bytes `fifo` in the transport: the parser, the command
\* it completed (a call of the NVM interface in it may fail), and with
\* CLI_CFG_PAR_USE_EN == 1 the data streaming every period_cnt calls.
HndlWith(fifo) ==
    \E r \in {cli_parser_hndl(fifo)} :
    \E fail \in (IF cfg.stream_nvm_en /\ r.cmd # <<>>
                 THEN (cfg.nvm_faults \cap NvmWriteOps) \cup {"none"}
                 ELSE {"none"}) :
    \E c0 \in {IF r.cmd # <<>>
               THEN cli_execute_cmd([Context EXCEPT !.fail = fail], r.cmd[1])
               ELSE Context} :
    \E stream \in {cfg.par_use_en /\ loop_cnt >= ToUint32(c0.lw.period_cnt - 1)} :
    \E c \in {IF stream THEN cli_par_live_watch_hndl(c0) ELSE c0} :
        /\ gu8_rx_buffer' = r.buf
        /\ buf_idx' = r.idx
        /\ rx_fifo' = r.fifo
        /\ ovr' = r.g.ovr
        /\ rx_tail' = r.g.tail
        /\ line_clean' = IF r.reset
                         THEN \A i \in DOMAIN r.buf : r.buf[i] = NUL
                         ELSE line_clean
        /\ ev' = [op |-> "cli_hndl", arg |-> "", status |-> r.status,
                  cmd |-> r.cmd,
                  acc |-> Prefix(gu8_rx_buffer, buf_idx)
                            \o SubSeq(fifo, 1, Len(fifo) - Len(r.fifo)),
                  clean |-> line_clean, ovr |-> r.disp_ovr, oob |-> FALSE]
        /\ tx' = c.tx
        /\ calls' = c.calls
        /\ ch_en' = c.ch
        /\ gu8_tx_buffer' = c.txbuf
        /\ g_cli_live_watch' = c.lw
        /\ nvm' = c.nvm
        /\ par_values' = c.par
        /\ loop_cnt' = IF ~cfg.par_use_en THEN loop_cnt
                       ELSE IF stream THEN 0 ELSE loop_cnt + 1
        /\ UNCHANGED <<gb_is_init, regVars, cfg, pc, mutex, tx_overrun, g_cli_osci>>

----------------------------------------------------------------------------
(* Operations                                                              *)

\* The transport receives one byte (cli_if_receive will deliver it).
if_receive_byte(b) ==
    /\ Len(rx_fifo) < MaxFifo
    /\ rx_fifo' = Append(rx_fifo, b)
    /\ ev' = NoEvent
    /\ tx' = <<>>
    /\ calls' = <<>>
    /\ UNCHANGED <<gb_is_init, gu8_rx_buffer, buf_idx, line_clean, ovr, rx_tail,
                   ch_en, regVars, gu8_tx_buffer, auxVars>>

cli_hndl == HndlWith(rx_fifo)

\* Number of complete lines waiting in the transport.
QueuedLines(fifo) == Cardinality({i \in 1 .. Len(fifo) : fifo[i] = LF})

\* The transport receives a whole command line and its termination string.
if_receive_line(l) ==
    /\ QueuedLines(rx_fifo) < MaxQueuedLines
    /\ rx_fifo' = rx_fifo \o l \o CLI_CFG_TERMINATION_STRING
    /\ ev' = NoEvent
    /\ tx' = <<>>
    /\ calls' = <<>>
    /\ UNCHANGED <<gb_is_init, gu8_rx_buffer, buf_idx, line_clean, ovr, rx_tail,
                   ch_en, regVars, gu8_tx_buffer, auxVars>>

\* A validation that looks at the number of commands only.
cli_validate_user_table_size_only(p_cmd_table) ==
    Table(p_cmd_table).num_of <= CLI_CFG_MAX_NUM_OF_COMMANDS

\* cli_validate_user_table
cli_validate_user_table(p_cmd_table) ==
    /\ Table(p_cmd_table).num_of <= CLI_CFG_MAX_NUM_OF_COMMANDS
    /\ \A cmd_num \in 1 .. Table(p_cmd_table).num_of :
          /\ Table(p_cmd_table).cmd[cmd_num].p_name # NULL
          /\ Table(p_cmd_table).cmd[cmd_num].p_help # NULL_PTR
          /\ Table(p_cmd_table).cmd[cmd_num].p_func # NULL_PTR

\* A registration that does not look at the space left.
RegisterAccepts_no_limit(p_cmd_table) ==
    /\ p_cmd_table # NULL_TABLE
    /\ cli_validate_user_table(p_cmd_table)

\* Whether cli_register_cmd_table stores the table.
RegisterAccepts(p_cmd_table) ==
    /\ p_cmd_table # NULL_TABLE
    /\ gu32_user_table_count < CLI_CFG_MAX_NUM_OF_USER_TABLES
    /\ cli_validate_user_table(p_cmd_table)

\* Modules register their tables at start-up, before any byte has arrived.
NothingReceived ==
    /\ rx_fifo = <<>>
    /\ buf_idx = 0
    /\ \A i \in DOMAIN gu8_rx_buffer : gu8_rx_buffer[i] = NUL

\* A registration that always takes the first slot.
StoreTable_first_slot(p_cmd_table) ==
    [gp_cli_user_tables EXCEPT ![0] = p_cmd_table]

\* gp_cli_user_tables[gu32_user_table_count] = p_cmd_table
StoreTable(p_cmd_table) ==
    [gp_cli_user_tables EXCEPT ![gu32_user_table_count] = p_cmd_table]

cli_register_cmd_table(p_cmd_table) ==
    /\ IF RegisterAccepts(p_cmd_table)
       THEN /\ gp_cli_user_tables' = StoreTable(p_cmd_table)
            /\ gu32_user_table_count' = gu32_user_table_count + 1
            /\ registered' = Append(registered, p_cmd_table)
       ELSE UNCHANGED regVars
    /\ ev' = [NoEvent EXCEPT !.op = "cli_register_cmd_table",
                             !.arg = p_cmd_table,
                             !.status = IF RegisterAccepts(p_cmd_table)
                                        THEN eCLI_OK ELSE eCLI_ERROR]
    /\ tx' = <<>>
    /\ calls' = <<>>
    /\ UNCHANGED <<gb_is_init, gu8_rx_buffer, buf_idx, rx_fifo, line_clean, ovr,
                   rx_tail, ch_en, gu8_tx_buffer, auxVars>>

\* The tasks that may call cli_printf at the same time, and a task that is
\* outside of cli_printf.
Tasks == {"handler", "background"}

TaskIdle == [at |-> "idle", text |-> "", status |-> eCLI_OK]

\* The static initializers of cli.c for a build, and the oscilloscope control
\* block.
InitStatics(build, osci) ==
    /\ buf_idx = 0
    /\ rx_fifo = <<>>
    /\ ev = NoEvent
    /\ line_clean = TRUE
    /\ ovr = FALSE
    /\ rx_tail = <<>>
    /\ tx = <<>>
    /\ calls = <<>>
    /\ gp_cli_user_tables = [i \in UserTblIdx |-> NULL_TABLE]
    /\ gu32_user_table_count = 0
    /\ registered = <<>>
    /\ gu8_tx_buffer = ""
    /\ cfg = build
    /\ pc = [t \in Tasks |-> TaskIdle]
    /\ mutex = "free"
    /\ tx_overrun = FALSE
    /\ g_cli_live_watch = LiveWatchDefault
    /\ nvm = NvmBlank
    /\ g_cli_osci = osci
    /\ par_values = [n \in 0 .. (Len(ParTable) - 1) |-> ParTable[n + 1].def]
    /\ loop_cnt = 0

\* Before cli_osci_init: g_cli_osci = {0}.
InitModuleWith(build) == InitStatics(build, OsciReset)

InitModule == InitModuleWith(DefaultCfg)

InitCommon ==
    /\ gb_is_init = TRUE
    /\ InitModule
    /\ ch_en = [ch \in 0 .. (eCLI_CH_NUM_OF - 1) |-> FALSE]

\* The module after cli_init() returned eCLI_OK, with a reception buffer of
\* RxBufSizeBytes bytes.
Init ==
    /\ InitCommon
    /\ gu8_rx_buffer = [i \in 0 .. (RxBufSizeBytes - 1) |-> NUL]

\* Single bytes arrive and the handler is polled.
Next ==
    \/ \E b \in RxBytes : if_receive_byte(b)
    \/ cli_hndl

Spec == Init /\ [][Next]_vars

\* The same module with a reception buffer of RxBufSizeLines bytes.
InitLines ==
    /\ InitCommon
    /\ gu8_rx_buffer = [i \in 0 .. (RxBufSizeLines - 1) |-> NUL]

\* Modules register their tables, whole command lines arrive and the handler
\* is polled.
NextLines ==
    \/ \E l \in Lines : if_receive_line(l)
    \/ cli_hndl
    \/ \E t \in UserTables \cup {NULL_TABLE} :
          NothingReceived /\ cli_register_cmd_table(t)

SpecLines == InitLines /\ [][NextLines]_vars

----------------------------------------------------------------------------
(* Line accumulator: properties of cli_parser_hndl                         *)

\* The bytes of s before the first termination string in s.
BeforeTerm(s) == SubSeq(s, 1, strstr(s, CLI_CFG_TERMINATION_STRING))

HasTerm(s) == strstr(s, CLI_CFG_TERMINATION_STRING) # -1

Dispatched == ev.op = "cli_hndl" /\ ev.cmd # <<>>

Overflowed == ev.op = "cli_hndl" /\ ev.status = eCLI_ERROR

\* C1: the bytes received since the last completed or overflowed line (or
\* since the start) lead to a dispatch exactly when they contain the
\* termination string; the dispatched line is the bytes before it and the
\* cursor is 0 right after.
C1_TerminationDetection ==
    ev.op = "cli_hndl" =>
        /\ Dispatched <=> HasTerm(ev.acc)
        /\ Dispatched => /\ ev.cmd[1] = BeforeTerm(ev.acc)
                         /\ buf_idx = 0

\* C2: bytes without termination string received into an all-NUL buffer with
\* cursor 0 are never dispatched; the byte that makes them capacity-1 bytes
\* makes cli_hndl return eCLI_ERROR and resets the cursor, fewer bytes are
\* kept and cli_hndl returns eCLI_OK.
C2_Overflow ==
    (ev.op = "cli_hndl" /\ ev.clean /\ ~HasTerm(ev.acc)) =>
        /\ ~Dispatched
        /\ Len(ev.acc) <= CLI_CFG_RX_BUF_SIZE - 1
        /\ Len(ev.acc) = CLI_CFG_RX_BUF_SIZE - 1 => Overflowed /\ buf_idx = 0
        /\ Len(ev.acc) < CLI_CFG_RX_BUF_SIZE - 1 =>
               ev.status = eCLI_OK /\ buf_idx = Len(ev.acc)

\* An overflow of capacity-1 bytes holding a CR and a LF, but no CR LF.
C2_Witness ==
    /\ Overflowed
    /\ ev.clean
    /\ Len(ev.acc) = CLI_CFG_RX_BUF_SIZE - 1
    /\ ~HasTerm(ev.acc)
    /\ \E i, j \in 1 .. Len(ev.acc) : ev.acc[i] = CR /\ ev.acc[j] = LF
    /\ buf_idx = 0

\* C3: after a completed line and after an overflow the cursor is 0 and every
\* cell of the reception buffer is cleared.
C3_BufferCleared ==
    (Dispatched \/ Overflowed) =>
        /\ buf_idx = 0
        /\ \A i \in DOMAIN gu8_rx_buffer : gu8_rx_buffer[i] = NUL

\* C4: no byte of a line that overflowed the buffer is dispatched: the
\* dispatch made when the termination string of the overlong line arrives
\* hands over no byte of it.
C4_OverlongLineAbandoned ==
    (Dispatched /\ ev.ovr /\ ev.acc = ev.cmd[1] \o CLI_CFG_TERMINATION_STRING) =>
        ev.cmd[1] = <<>>

\* C5: a call of cli_hndl takes bytes from the front of the transport only,
\* leaves the others queued in their order, dispatches at most one line, stops
\* before the transport is empty only after a dispatch or an overflow, and
\* keeps the bytes it took: in the buffer in arrival order, or in the
\* dispatched line.
C5_OneLinePerCall ==
    [][ev'.op = "cli_hndl" =>
         \E n \in 0 .. Len(rx_fifo) :
            /\ rx_fifo' = SubSeq(rx_fifo, n + 1, Len(rx_fifo))
            /\ ev'.acc = Prefix(gu8_rx_buffer, buf_idx) \o SubSeq(rx_fifo, 1, n)
            /\ Len(ev'.cmd) <= 1
            /\ rx_fifo' # <<>> => (ev'.cmd # <<>> \/ ev'.status = eCLI_ERROR)
            /\ (ev'.cmd = <<>> /\ ev'.status = eCLI_OK) =>
                   Prefix(gu8_rx_buffer', buf_idx') = ev'.acc
            /\ (ev'.cmd # <<>> /\ ev'.clean) =>
                   ev'.cmd[1] \o CLI_CFG_TERMINATION_STRING = ev'.acc
      ]_vars

\* A line was dispatched while a further complete line waits in the transport.
C5_Witness ==
    /\ Dispatched
    /\ ev.clean
    /\ HasTerm(rx_fifo)

----------------------------------------------------------------------------
(* Dispatcher: properties of cli_execute_cmd and of the registry           *)

\* The position of the first space of a line, 0 when it has none.
FirstSpace(line) ==
    IF \A i \in 1 .. Len(line) : line[i] # SP THEN 0
    ELSE CHOOSE i \in 1 .. Len(line) :
            /\ line[i] = SP
            /\ \A j \in 1 .. (i - 1) : line[j] # SP

\* The command name of a line and the attribute its handler is due.
NameOf(line) ==
    IF FirstSpace(line) = 0 THEN line ELSE SubSeq(line, 1, FirstSpace(line) - 1)

AttrOf(line) ==
    IF FirstSpace(line) = 0 THEN NULL
    ELSE SubSeq(line, FirstSpace(line) + 1, Len(line))

\* The tables in search order: the built-in one, then the registered ones in
\* the order of their registration.
SearchOrder ==
    <<g_cli_basic_table>> \o [ k \in 1 .. Len(registered) |-> Table(registered[k]).cmd ]

\* Table k of the search order declares `name` as its i-th command.
Declares(k, i, name) ==
    /\ k \in 1 .. Len(SearchOrder)
    /\ i \in 1 .. Len(SearchOrder[k])
    /\ SearchOrder[k][i].p_name = name

\* No table searched before table k, and no command before the i-th of table
\* k, declares `name`.
FirstDeclared(k, i, name) ==
    /\ Declares(k, i, name)
    /\ \A j \in 1 .. (k - 1) : \A m \in 1 .. Len(SearchOrder[j]) : ~Declares(j, m, name)
    /\ \A m \in 1 .. (i - 1) : ~Declares(k, m, name)

Known(name) ==
    \E k \in 1 .. Len(SearchOrder) : \E i \in 1 .. Len(SearchOrder[k]) :
        Declares(k, i, name)

\* The handlers the last call invoked (a collaborator call is none).
HandlerCalls ==
    SelectSeq(calls, LAMBDA call :
        \E k \in 1 .. Len(SearchOrder) : \E i \in 1 .. Len(SearchOrder[k]) :
            SearchOrder[k][i].p_func = call.func)

C7_LongestNameSafety ==
    Dispatched =>
        /\ \A k \in 1 .. Len(SearchOrder) : \A i \in 1 .. Len(SearchOrder[k]) :
              CmdMatches(ev.cmd[1], Len(NameOf(ev.cmd[1])), SearchOrder[k][i].p_name)
                 <=> SearchOrder[k][i].p_name = NameOf(ev.cmd[1])
        /\ \A n \in 1 .. Len(HandlerCalls) :
              \E k \in 1 .. Len(SearchOrder) : \E i \in 1 .. Len(SearchOrder[k]) :
                  /\ SearchOrder[k][i].p_func = HandlerCalls[n].func
                  /\ SearchOrder[k][i].p_name = NameOf(ev.cmd[1])
        /\ Known(NameOf(ev.cmd[1])) <=> HandlerCalls # <<>>

\* With "par" and "par_set" registered, the line "par" invokes par.
C7_Witness ==
    /\ Dispatched
    /\ "A" \in { registered[k] : k \in 1 .. Len(registered) }
    /\ ev.cmd[1] = <<"p","a","r">>
    /\ calls = << [func |-> "A.par", attr |-> NULL] >>

\* C8: a dispatched line whose name some table declares invokes exactly one
\* handler: that of the first declaration in search order (the built-in table,
\* then the user tables in registration order, commands in declaration order).
C8_FirstMatchWins ==
    Dispatched =>
        \A k \in 1 .. Len(SearchOrder) : \A i \in 1 .. Len(SearchOrder[k]) :
            FirstDeclared(k, i, NameOf(ev.cmd[1])) =>
                /\ Len(HandlerCalls) = 1
                /\ HandlerCalls[1].func = SearchOrder[k][i].p_func

\* "dup" is declared by both registered tables; the first one's handler runs.
C8_Witness ==
    /\ Dispatched
    /\ registered = <<"A", "B">>
    /\ ev.cmd[1] = <<"d","u","p">>
    /\ calls = << [func |-> "A.dup", attr |-> NULL] >>

\* C9: a dispatched line whose name no table declares is answered with the
\* single line "ERR, Unknown command!" and invokes no handler.
C9_UnknownFallback ==
    (Dispatched /\ ~Known(NameOf(ev.cmd[1]))) =>
        /\ tx = << "ERR, Unknown command!", Str(CLI_CFG_TERMINATION_STRING) >>
        /\ calls = <<>>

\* "nope" is declared by no table.
C9_Witness ==
    /\ Dispatched
    /\ ev.cmd[1] = <<"n","o","p","e">>
    /\ registered # <<>>
    /\ tx = << "ERR, Unknown command!", "\r\n" >>
    /\ calls = <<>>

\* C10: a dispatched line whose name a registered table declares invokes that
\* table's handler for the name, whatever else is registered.
C10_RoundTrip ==
    Dispatched =>
        \A k \in 2 .. Len(SearchOrder) : \A i \in 1 .. Len(SearchOrder[k]) :
            Declares(k, i, NameOf(ev.cmd[1])) =>
                /\ Len(HandlerCalls) = 1
                /\ HandlerCalls[1].func = SearchOrder[k][i].p_func

\* C10, for names no table searched earlier declares: a dispatched line
\* whose name a registered table declares invokes that table's handler for
\* the name, with the attribute of the line, if neither the built-in table
\* nor a table registered earlier declares the name; tables registered later
\* do not matter.
C10_RoundTripUnshadowed ==
    Dispatched =>
        \A k \in 2 .. Len(SearchOrder) : \A i \in 1 .. Len(SearchOrder[k]) :
            ( /\ Declares(k, i, NameOf(ev.cmd[1]))
              /\ \A j \in 1 .. (k - 1) : \A m \in 1 .. Len(SearchOrder[j]) :
                    ~Declares(j, m, NameOf(ev.cmd[1])) ) =>
                /\ Len(HandlerCalls) = 1
                /\ \E m \in 1 .. i :
                      /\ Declares(k, m, NameOf(ev.cmd[1]))
                      /\ calls = << [func |-> SearchOrder[k][m].p_func,
                                     attr |-> AttrOf(ev.cmd[1])] >>

\* "cmd " invokes the handler of the table registered second.
C10_Witness ==
    /\ Dispatched
    /\ registered = <<"A", "B">>
    /\ ev.cmd[1] = <<"c","m","d",SP>>
    /\ calls = << [func |-> "B.cmd", attr |-> <<>>] >>

----------------------------------------------------------------------------
(* Registry: properties of cli_register_cmd_table                          *)

\* The tables with a command that lacks its name, help text or function.
InvalidTables ==
    { t \in UserTables :
        \E i \in 1 .. Len(Table(t).cmd) :
            \/ Table(t).cmd[i].p_name = NULL
            \/ Table(t).cmd[i].p_help = NULL_PTR
            \/ Table(t).cmd[i].p_func = NULL_PTR }

\* The functions and the help lines of the commands of a set of tables.
FuncsOf(tables) ==
    { Table(t).cmd[i].p_func : t \in tables, i \in 1 .. 2 } \ {NULL_PTR}

HelpTextsOf(tables) ==
    { Table(t).cmd[i].p_help : t \in tables, i \in 1 .. 2 } \ {NULL_PTR}

\* C11: registering a table with a command that lacks name, help text or
\* function returns eCLI_ERROR and leaves table array and count as they were;
\* no call of cli_hndl invokes a function of such a table or sends a help
\* line of one of its commands.
C11_InvalidTableRejected ==
    [][ /\ (ev'.op = "cli_register_cmd_table" /\ ev'.arg \in InvalidTables) =>
              /\ ev'.status = eCLI_ERROR
              /\ gp_cli_user_tables' = gp_cli_user_tables
              /\ gu32_user_table_count' = gu32_user_table_count
        /\ ev'.op = "cli_hndl" =>
              /\ \A n \in 1 .. Len(calls') : calls'[n].func \notin FuncsOf(InvalidTables)
              /\ \A n \in 1 .. Len(tx') : \A h \in HelpTextsOf(InvalidTables) :
                    tx'[n] # PadRight("nope", 25) \o h
      ]_vars

\* Table "Bad" was refused after table "A" had been accepted.
C11_Witness ==
    /\ ev.op = "cli_register_cmd_table"
    /\ ev.arg = "Bad"
    /\ ev.status = eCLI_ERROR
    /\ registered = <<"A">>
    /\ gu32_user_table_count = 1
    /\ gp_cli_user_tables[1] = NULL_TABLE

\* The well formed tables: every command complete, at most
\* CLI_CFG_MAX_NUM_OF_COMMANDS commands.
ValidTables ==
    { t \in UserTables \ InvalidTables :
        Table(t).num_of <= CLI_CFG_MAX_NUM_OF_COMMANDS }

\* C13: the number of registered tables has no fixed limit: every
\* registration of a well formed table returns eCLI_OK and the table is the
\* last one of the registry afterwards.
C13_NoTableLimit ==
    (ev.op = "cli_register_cmd_table" /\ ev.arg \in ValidTables) =>
        /\ ev.status = eCLI_OK
        /\ gu32_user_table_count > 0
        /\ gp_cli_user_tables[gu32_user_table_count - 1] = ev.arg

\* One help line per command of the tables from the k-th of the search
\* order on, each registered table after a separator of its own.
RECURSIVE HelpBody(_)
HelpBody(k) ==
    IF k > Len(SearchOrder) THEN <<>>
    ELSE (IF k = 1 THEN <<>> ELSE <<HelpSeparator>>)
         \o [ i \in 1 .. Len(SearchOrder[k]) |->
                PadRight(Str(SearchOrder[k][i].p_name), 25) \o SearchOrder[k][i].p_help ]
         \o HelpBody(k + 1)

C14_WitnessAttr ==
    /\ Dispatched
    /\ ev.cmd[1] = <<"h","e","l","p",SP>>
    /\ tx = << "ERR, Unknown command!", "\r\n" >>

----------------------------------------------------------------------------
(* Life cycle and output operations called by the application              *)

\* Size of gu8_tx_buffer.
CLI_CFG_TX_BUF_SIZE == 128

\* What the application prints: a short text, one that fills the transmit
\* buffer to its last byte, one that is a byte too long, and no format at all.
FitText  == PadRight("fit", CLI_CFG_TX_BUF_SIZE - 1)
LongText == PadRight("long", CLI_CFG_TX_BUF_SIZE)
PrintfTexts == {"hi", FitText, LongText, NULL_PTR}

\* The outcomes of nvm_init and cli_nvm_read in cli_init: no failure, or the
\* failure of nvm_init, of the header read or of the parameter list read on a
\* device where that call can fail; none without CLI_CFG_STREAM_NVM_EN.
NvmInitOutcomes ==
    IF cfg.stream_nvm_en
    THEN (cfg.nvm_faults \cap {"nvm_init", "header", "par_list"}) \cup {"none"}
    ELSE {"none"}

\* cli_init; cli_if_init, called when the module is not initialized, reports
\* if_status (kept in ev.arg). With CLI_CFG_STREAM_NVM_EN the live watch data
\* is read from NVM after gb_is_init is set.
cli_init ==
    \E if_status \in {eCLI_OK, eCLI_ERROR} :
    \E fail \in (IF ~gb_is_init /\ if_status = eCLI_OK THEN NvmInitOutcomes ELSE {"none"}) :
    \E c \in {IF ~gb_is_init /\ if_status = eCLI_OK /\ cfg.stream_nvm_en
              THEN (IF fail = "nvm_init"
                    THEN [Context EXCEPT !.ret = eCLI_ERROR_INIT]
                    ELSE cli_nvm_read([Context EXCEPT !.init = TRUE], fail))
              ELSE [Context EXCEPT !.ret = IF ~gb_is_init THEN if_status
                                            ELSE eCLI_ERROR_INIT]} :
        /\ gb_is_init' = IF ~gb_is_init /\ if_status = eCLI_OK THEN TRUE ELSE gb_is_init
        /\ ev' = [NoEvent EXCEPT !.op = "cli_init", !.status = c.ret,
                                 !.arg = IF gb_is_init THEN "" ELSE if_status]
        /\ tx' = c.tx
        /\ calls' = <<>>
        /\ gu8_tx_buffer' = c.txbuf
        /\ g_cli_live_watch' = c.lw
        /\ nvm' = c.nvm
        /\ UNCHANGED <<gu8_rx_buffer, buf_idx, rx_fifo, line_clean, ovr, rx_tail,
                       ch_en, regVars, cfg, pc, mutex, tx_overrun, g_cli_osci,
                       par_values, loop_cnt>>

\* A cli_deinit that forgets the registered tables.
cli_deinit_registry(if_status) ==
    IF gb_is_init /\ if_status = eCLI_OK
    THEN /\ gp_cli_user_tables' = [i \in UserTblIdx |-> NULL_TABLE]
         /\ gu32_user_table_count' = 0
         /\ registered' = registered
    ELSE UNCHANGED regVars

\* cli_deinit leaves the registry alone.
cli_deinit_keeps(if_status) == UNCHANGED regVars

\* cli_deinit; cli_if_deinit, called when the module is initialized, reports
\* if_status (kept in ev.arg).
cli_deinit ==
    \E if_status \in {eCLI_OK, eCLI_ERROR} :
        /\ gb_is_init' = IF gb_is_init /\ if_status = eCLI_OK THEN FALSE ELSE gb_is_init
        /\ ev' = [NoEvent EXCEPT !.op = "cli_deinit",
                                 !.arg = IF gb_is_init THEN if_status ELSE "",
                                 !.status = IF gb_is_init THEN if_status
                                            ELSE eCLI_ERROR_INIT]
        /\ tx' = <<>>
        /\ calls' = <<>>
        /\ cli_deinit_keeps(if_status)
        /\ UNCHANGED <<gu8_rx_buffer, buf_idx, rx_fifo, line_clean, ovr, rx_tail,
                       ch_en, gu8_tx_buffer, auxVars>>

\* A cli_is_init that answers "initialized" whatever the flag is.
cli_is_init_stale ==
    /\ ev' = [NoEvent EXCEPT !.op = "cli_is_init", !.arg = "true"]
    /\ tx' = <<>>
    /\ calls' = <<>>
    /\ UNCHANGED <<gb_is_init, gu8_rx_buffer, buf_idx, rx_fifo, line_clean, ovr,
                   rx_tail, ch_en, regVars, gu8_tx_buffer, auxVars>>

\* cli_is_init; the flag is copied to *p_is_init (kept in ev.arg) unless the
\* pointer is NULL.
cli_is_init ==
    \E p_is_init \in {"p_is_init", NULL_PTR} :
        /\ ev' = [NoEvent EXCEPT
                    !.op = "cli_is_init",
                    !.arg = IF p_is_init = NULL_PTR THEN ""
                            ELSE IF gb_is_init THEN "true" ELSE "false",
                    !.status = IF p_is_init = NULL_PTR THEN eCLI_ERROR
                               ELSE eCLI_OK]
        /\ tx' = <<>>
        /\ calls' = <<>>
        /\ UNCHANGED <<gb_is_init, gu8_rx_buffer, buf_idx, rx_fifo, line_clean,
                       ovr, rx_tail, ch_en, regVars, gu8_tx_buffer, auxVars>>

\* vsprintf renders without a size: a text of CLI_CFG_TX_BUF_SIZE characters
\* or more puts its end behind gu8_tx_buffer.
vsprintf_overruns(text) == Len(text) + 1 > CLI_CFG_TX_BUF_SIZE

\* Where the bytes behind gu8_tx_buffer land: in unused memory, or in
\* gu8_rx_buffer, the object defined next.
OverrunTargets(text) ==
    IF vsprintf_overruns(text) THEN {"unused", "gu8_rx_buffer"} ELSE {"none"}

\* The reception buffer after `n` bytes of an overrun landed at its start:
\* the last one is the NUL that ends the text.
Clobbered(buf, n) ==
    [ i \in DOMAIN buf |-> IF i < n - 1 THEN "a" ELSE IF i = n - 1 THEN NUL ELSE buf[i] ]

\* Return value of cli_printf
cli_printf_status(p_format) ==
    IF gb_is_init
    THEN (IF p_format # NULL_PTR THEN eCLI_OK ELSE eCLI_ERROR)
    ELSE eCLI_ERROR_INIT

\* The application calls cli_printf (CLI_CFG_MUTEX_EN == 0).
cli_printf_call(p_format) ==
    \E c \in {IF p_format # NULL_PTR THEN cli_printf(Context, p_format) ELSE Context} :
    \E target \in (IF gb_is_init /\ p_format # NULL_PTR
                   THEN OverrunTargets(p_format) ELSE {"none"}) :
        /\ tx' = c.tx
        /\ gu8_tx_buffer' = c.txbuf
        /\ tx_overrun' = (tx_overrun \/ target # "none")
        /\ gu8_rx_buffer' = IF target = "gu8_rx_buffer"
                            THEN Clobbered(gu8_rx_buffer,
                                           Len(p_format) + 1 - CLI_CFG_TX_BUF_SIZE)
                            ELSE gu8_rx_buffer
        /\ ev' = [NoEvent EXCEPT !.op = "cli_printf", !.arg = p_format,
                                 !.status = cli_printf_status(p_format)]
        /\ calls' = <<>>
        /\ UNCHANGED <<gb_is_init, buf_idx, rx_fifo, line_clean, ovr, rx_tail,
                       ch_en, regVars, cfg, modVars, pc, mutex>>

\* cli_cfg_get_ch_en
cli_cfg_get_ch_en(ch) == ch_en[ch]

\* A cli_printf_ch that does not look at the enable flag.
ChannelOpen_always(ch) == TRUE

\* Whether cli_printf_ch sends on the channel.
ChannelOpen(ch) == cli_cfg_get_ch_en(ch)

\* cli_printf_ch on context c: channel name, ": ", the rendered text and the
\* termination string, when the channel is enabled.
cli_printf_ch(c, ch, text) ==
    IF gb_is_init /\ text # NULL_PTR /\ ChannelOpen(ch)
    THEN cli_send_str(
           cli_send_str(
             cli_send_str(
               cli_send_str([c EXCEPT !.txbuf = text], cli_cfg_get_ch_name(ch)),
               ": "),
             text),
           Str(CLI_CFG_TERMINATION_STRING))
    ELSE c

\* Return value of cli_printf_ch
cli_printf_ch_status(ch, p_format) ==
    IF gb_is_init
    THEN (IF p_format # NULL_PTR THEN eCLI_OK ELSE eCLI_ERROR)
    ELSE eCLI_ERROR_INIT

\* The application calls cli_printf_ch (CLI_CFG_MUTEX_EN == 0).
cli_printf_ch_call(ch, p_format) ==
    \E c \in {cli_printf_ch(Context, ch, p_format)} :
    \E target \in (IF gb_is_init /\ p_format # NULL_PTR /\ ChannelOpen(ch)
                   THEN OverrunTargets(p_format) ELSE {"none"}) :
        /\ tx' = c.tx
        /\ gu8_tx_buffer' = c.txbuf
        /\ tx_overrun' = (tx_overrun \/ target # "none")
        /\ gu8_rx_buffer' = IF target = "gu8_rx_buffer"
                            THEN Clobbered(gu8_rx_buffer,
                                           Len(p_format) + 1 - CLI_CFG_TX_BUF_SIZE)
                            ELSE gu8_rx_buffer
        /\ ev' = [NoEvent EXCEPT !.op = "cli_printf_ch", !.arg = p_format,
                                 !.status = cli_printf_ch_status(ch, p_format)]
        /\ calls' = IF gb_is_init /\ p_format # NULL_PTR
                    THEN <<[func |-> "cli_cfg_get_ch_en", attr |-> <<ch>>]>>
                    ELSE <<>>
        /\ UNCHANGED <<gb_is_init, buf_idx, rx_fifo, line_clean, ovr, rx_tail,
                       ch_en, regVars, cfg, modVars, pc, mutex>>

\* The lines the terminal sends during the life cycle.
LifeLines == { <<"d","u","p">> }

\* The module before cli_init; the channel table of the configuration has
\* no channel or the first channel enabled.
InitLife ==
    /\ gb_is_init = FALSE
    /\ InitModule
    /\ ch_en \in { [ch \in 0 .. (eCLI_CH_NUM_OF - 1) |-> FALSE],
                   [ch \in 0 .. (eCLI_CH_NUM_OF - 1) |-> ch = 0] }
    /\ gu8_rx_buffer = [i \in 0 .. (RxBufSizeLines - 1) |-> NUL]

\* Every public operation, in any order.
NextLife ==
    \/ cli_init
    \/ cli_deinit
    \/ \E l \in LifeLines : if_receive_line(l)
    \/ cli_hndl
    \/ \E t \in UserTables \cup {NULL_TABLE} : cli_register_cmd_table(t)
    \/ \E text \in PrintfTexts : cli_printf_call(text)
    \/ \E ch \in 0 .. 1 : \E text \in PrintfTexts : cli_printf_ch_call(ch, text)

SpecLife == InitLife /\ [][NextLife]_vars

----------------------------------------------------------------------------
(* Life cycle: properties of the registry and of the initialization guard  *)

\* The registry holds exactly the accepted tables, in the order of their
\* registration, in its first gu32_user_table_count slots.
RegistryInOrder ==
    /\ gu32_user_table_count = Len(registered)
    /\ \A i \in UserTblIdx :
          gp_cli_user_tables[i] = IF i < gu32_user_table_count
                                  THEN registered[i + 1] ELSE NULL_TABLE

\* C12: whatever sequence of cli_register_cmd_table, cli_hndl, cli_init and
\* cli_deinit runs, no step removes or moves a registered table: the count
\* never decreases, every occupied slot keeps its table, and the slots hold
\* the accepted tables in registration order.
C12_RegistryAppendOnly ==
    [][ /\ gu32_user_table_count' >= gu32_user_table_count
        /\ \A i \in UserTblIdx :
              i < gu32_user_table_count => gp_cli_user_tables'[i] = gp_cli_user_tables[i]
        /\ RegistryInOrder'
      ]_vars

\* cli_deinit succeeded and tables B and A are still registered, B first.
C12_Witness ==
    /\ ev.op = "cli_deinit"
    /\ ev.status = eCLI_OK
    /\ ~gb_is_init
    /\ registered = <<"B", "A">>
    /\ gp_cli_user_tables[0] = "B"
    /\ gp_cli_user_tables[1] = "A"

\* The operations that are due to refuse work before cli_init.
GuardedOps ==
    {"cli_hndl", "cli_register_cmd_table", "cli_printf", "cli_printf_ch", "cli_deinit"}

\* C15: cli_hndl, cli_register_cmd_table, cli_printf, cli_printf_ch and
\* cli_deinit, called while the module is not initialized, return
\* eCLI_ERROR_INIT and have no effect: nothing is consumed, stored, invoked
\* or sent.
C15_GuardBeforeInit ==
    [][ (~gb_is_init /\ ev'.op \in GuardedOps) =>
            /\ ev'.status = eCLI_ERROR_INIT
            /\ tx' = <<>>
            /\ calls' = <<>>
            /\ UNCHANGED <<gb_is_init, gu8_rx_buffer, buf_idx, rx_fifo, ch_en,
                           gp_cli_user_tables, gu32_user_table_count,
                           gu8_tx_buffer>>
      ]_vars

\* The channel of the last cli_printf_ch call is enabled.
ChannelOfCallEnabled ==
    /\ calls # <<>>
    /\ calls[1].func = "cli_cfg_get_ch_en"
    /\ ch_en[calls[1].attr[1]]

\* C16: cli_printf and cli_printf_ch called before initialization return
\* eCLI_ERROR_INIT, send nothing and leave gu8_tx_buffer as it was; called
\* after cli_init with a format (and, for cli_printf_ch, an enabled channel)
\* they render the text into gu8_tx_buffer and send it, the termination
\* string last.
C16_PrintfNeedsInit ==
    [][ (ev'.op \in {"cli_printf", "cli_printf_ch"}) =>
           IF ~gb_is_init
           THEN /\ ev'.status = eCLI_ERROR_INIT
                /\ tx' = <<>>
                /\ gu8_tx_buffer' = gu8_tx_buffer
           ELSE (ev'.arg # NULL_PTR /\ (ev'.op = "cli_printf" \/ ChannelOfCallEnabled')) =>
                /\ ev'.status = eCLI_OK
                /\ gu8_tx_buffer' = ev'.arg
                /\ Len(tx') >= 2
                /\ tx'[Len(tx') - 1] = ev'.arg
                /\ tx'[Len(tx')] = Str(CLI_CFG_TERMINATION_STRING)
      ]_vars

\* "hi" was printed while initialized; after cli_deinit a further cli_printf
\* is refused and gu8_tx_buffer still holds "hi".
C16_Witness ==
    /\ ev.op = "cli_printf"
    /\ ev.arg = FitText
    /\ ev.status = eCLI_ERROR_INIT
    /\ ~gb_is_init
    /\ tx = <<>>
    /\ gu8_tx_buffer = "hi"

\* C19: cli_printf_ch of an initialized module, given a format: on a
\* disabled channel it renders nothing, sends nothing and returns eCLI_OK; on
\* an enabled channel it sends the channel name and ": ", then the rendered
\* text, then the termination string.
C19_ChannelPrintf ==
    [][ (ev'.op = "cli_printf_ch" /\ gb_is_init /\ ev'.arg # NULL_PTR) =>
           /\ ev'.status = eCLI_OK
           /\ calls' # <<>>
           /\ IF ch_en[calls'[1].attr[1]]
              THEN /\ tx' = << cli_cfg_get_ch_name(calls'[1].attr[1]), ": ", ev'.arg,
                               Str(CLI_CFG_TERMINATION_STRING) >>
                   /\ gu8_tx_buffer' = ev'.arg
              ELSE /\ tx' = <<>>
                   /\ gu8_tx_buffer' = gu8_tx_buffer
      ]_vars

\* "hi" on the enabled channel 0 is sent as "WARNING: hi".
C19_Witness ==
    /\ ev.op = "cli_printf_ch"
    /\ ev.arg = "hi"
    /\ ev.status = eCLI_OK
    /\ ch_en[0]
    /\ tx = << "WARNING", ": ", "hi", "\r\n" >>

\* "hi" on the disabled channel 1 is dropped after "fit..." had been printed.
C19_WitnessDisabled ==
    /\ ev.op = "cli_printf_ch"
    /\ ev.arg = "hi"
    /\ ev.status = eCLI_OK
    /\ calls = << [func |-> "cli_cfg_get_ch_en", attr |-> <<1>>] >>
    /\ tx = <<>>
    /\ gu8_tx_buffer = FitText

\* C18: a cli_printf of an initialized module whose rendered text, with its
\* final NUL, needs more than CLI_CFG_TX_BUF_SIZE bytes returns an error and
\* not eCLI_OK; no call ever writes beyond gu8_tx_buffer.
C18_OverlongDetected ==
    /\ ~tx_overrun
    /\ (/\ ev.op = "cli_printf"
        /\ ev.arg # NULL_PTR
        /\ ev.status # eCLI_ERROR_INIT
        /\ Len(ev.arg) + 1 > CLI_CFG_TX_BUF_SIZE) => ev.status # eCLI_OK

----------------------------------------------------------------------------
(* cli_printf of two tasks, built with CLI_CFG_MUTEX_EN == 1               *)

\* The two-character texts the tasks print.
MutexTexts == {"aa", "bb"}

\* Number of strings the transport takes before the observation ends.
MaxTx == 2

\* First and second character of the text in gu8_tx_buffer.
Char1(buf) ==
    CASE buf \in {"a", "aa", "ab"} -> "a"
      [] buf \in {"b", "ba", "bb"} -> "b"
      [] OTHER -> ""

Char2(buf) ==
    CASE buf \in {"aa", "ba"} -> "a"
      [] buf \in {"ab", "bb"} -> "b"
      [] OTHER -> ""

\* cli_printf entered by task t: vsprintf stores the first character of the
\* text. The mutex is not held while vsprintf runs.
printf_enter(t, text) ==
    /\ gb_is_init
    /\ pc[t].at = "idle"
    /\ Len(tx) < MaxTx
    /\ gu8_tx_buffer' = Char1(text) \o Char2(gu8_tx_buffer)
    /\ pc' = [pc EXCEPT ![t] = [at |-> "vsprintf", text |-> text, status |-> eCLI_OK]]
    /\ UNCHANGED <<gb_is_init, rxVars, tx, calls, ch_en, regVars, cfg, modVars, mutex, tx_overrun>>

\* vsprintf stores the second character and the final NUL.
printf_render(t) ==
    /\ pc[t].at = "vsprintf"
    /\ gu8_tx_buffer' = Char1(gu8_tx_buffer) \o Char2(pc[t].text)
    /\ pc' = [pc EXCEPT ![t].at = "send_body"]
    /\ UNCHANGED <<gb_is_init, rxVars, tx, calls, ch_en, regVars, cfg, modVars, mutex, tx_overrun>>

\* Where cli_printf continues after a cli_send_str.
AfterSend(at) == IF at = "send_body" THEN "send_term" ELSE "idle"

\* cli_printf returns to task t with `status`.
Returned(t, status) ==
    IF AfterSend(pc[t].at) = "idle"
    THEN ev' = [NoEvent EXCEPT !.op = "cli_printf", !.arg = pc[t].text,
                               !.status = status]
    ELSE ev' = ev

\* cli_send_str: cli_if_aquire_mutex returns eCLI_OK.
send_acquire(t) ==
    /\ pc[t].at \in {"send_body", "send_term"}
    /\ mutex = "free"
    /\ mutex' = t
    /\ UNCHANGED <<gb_is_init, rxVars, tx, calls, ch_en, regVars, gu8_tx_buffer,
                   cfg, modVars, pc, tx_overrun>>

\* cli_send_str: cli_if_aquire_mutex gives up while another task holds the
\* mutex; cli_send_str returns eCLI_ERROR without transmitting.
send_acquire_fail(t) ==
    /\ pc[t].at \in {"send_body", "send_term"}
    /\ mutex \notin {"free", t}
    /\ pc' = [pc EXCEPT ![t] = IF AfterSend(@.at) = "idle" THEN TaskIdle
                               ELSE [@ EXCEPT !.at = "send_term",
                                              !.status = eCLI_ERROR]]
    /\ Returned(t, eCLI_ERROR)
    /\ UNCHANGED <<gb_is_init, gu8_rx_buffer, buf_idx, rx_fifo, line_clean, ovr,
                   rx_tail, tx, calls, ch_en, regVars, gu8_tx_buffer, cfg, modVars, mutex,
                   tx_overrun>>

\* cli_send_str: cli_if_transmit of gu8_tx_buffer or of the termination
\* string, then cli_if_release_mutex.
send_transmit(t) ==
    /\ pc[t].at \in {"send_body", "send_term"}
    /\ mutex = t
    /\ tx' = Append(tx, IF pc[t].at = "send_body" THEN gu8_tx_buffer
                        ELSE Str(CLI_CFG_TERMINATION_STRING))
    /\ calls' = Append(calls, [func |-> "cli_if_transmit",
                               attr |-> <<t, pc[t].at, pc[t].text>>])
    /\ mutex' = "free"
    /\ pc' = [pc EXCEPT ![t] = IF AfterSend(@.at) = "idle" THEN TaskIdle
                               ELSE [@ EXCEPT !.at = "send_term"]]
    /\ Returned(t, pc[t].status)
    /\ UNCHANGED <<gb_is_init, gu8_rx_buffer, buf_idx, rx_fifo, line_clean, ovr,
                   rx_tail, ch_en, regVars, gu8_tx_buffer, cfg, modVars, tx_overrun>>

\* The initialized module; both tasks outside of cli_printf.
InitMutex == Init

NextMutex ==
    \E t \in Tasks :
        \/ \E text \in MutexTexts : printf_enter(t, text)
        \/ printf_render(t)
        \/ send_acquire(t)
        \/ send_acquire_fail(t)
        \/ send_transmit(t)

SpecMutex == InitMutex /\ [][NextMutex]_vars

\* C17: with the mutex enabled, output of concurrent cli_printf callers is
\* never interleaved: every text the transport takes is the text its caller
\* rendered, and the string the transport takes next is the termination
\* string of the same caller.
C17_NoInterleaving ==
    \A i \in 1 .. Len(tx) :
        calls[i].attr[2] = "send_body" =>
            /\ tx[i] = calls[i].attr[3]
            /\ i < Len(tx) =>
                  /\ tx[i + 1] = Str(CLI_CFG_TERMINATION_STRING)
                  /\ calls[i + 1].attr[1] = calls[i].attr[1]

----------------------------------------------------------------------------
(* The escape count of cli_parser_hndl                                     *)

\* A build whose reception buffer is larger than the escape count limit, in
\* small: the limit (10000 in cli.c) is EscapeLimitScaled, the buffer has
\* RxBufSizeGuard bytes.
EscapeLimitScaled == 2
RxBufSizeGuard == 5

InitGuard ==
    /\ gb_is_init = TRUE
    /\ InitModuleWith([DefaultCfg EXCEPT !.escape_limit = EscapeLimitScaled])
    /\ ch_en = [ch \in 0 .. (eCLI_CH_NUM_OF - 1) |-> FALSE]
    /\ gu8_rx_buffer = [i \in 0 .. (RxBufSizeGuard - 1) |-> NUL]

SpecGuard == InitGuard /\ [][Next]_vars

\* C20: a call of cli_hndl that ends without a command and without overrun
\* (the transport ran empty, or the escape count stopped the loop) has kept
\* every byte it took: the buffer up to the cursor holds the bytes
\* accumulated before the call followed by the bytes taken by the call, so
\* that each of them takes part in the search for the termination string.
C20_GuardKeepsBytes ==
    (ev.op = "cli_hndl" /\ ev.cmd = <<>> /\ ev.status = eCLI_OK) =>
        Prefix(gu8_rx_buffer, buf_idx) = ev.acc

----------------------------------------------------------------------------
(* Commands of the basic table, built with CLI_CFG_PAR_USE_EN == 1         *)

\* Size of the reception buffer that takes the longest of the lines below.
RxBufSizePar == 24

\* Parameter and live watch commands: existing and missing IDs, accepted and
\* rejected values, lists up to and beyond the capacity.
ParLines ==
    { <<"p","a","r","_","g","e","t",SP,"9">>,
      <<"p","a","r","_","g","e","t",SP,"0">>,
      <<"p","a","r","_","g","e","t",SP,"1">>,
      <<"p","a","r","_","s","e","t",SP,"1",",","5">>,
      <<"p","a","r","_","s","e","t",SP,"1",",","1","2">>,
      <<"p","a","r","_","s","e","t",SP,"2",",","1">>,
      <<"s","t","a","t","u","s","_","d","e","s",SP,"1",",","2">>,
      <<"s","t","a","t","u","s","_","d","e","s",SP,"9">>,
      <<"s","t","a","t","u","s","_","d","e","s",SP,"1",",","1",",","1">> }

\* The module after cli_init() returned eCLI_OK; what follows par_list in
\* cli_live_watch_t (period or padding) is one of layouts.
InitPar(layouts) ==
    /\ gb_is_init = TRUE
    /\ \E layout \in layouts :
          InitModuleWith([DefaultCfg EXCEPT !.par_use_en = TRUE,
                                            !.after_par_list = layout])
    /\ ch_en = [ch \in 0 .. (eCLI_CH_NUM_OF - 1) |-> FALSE]
    /\ gu8_rx_buffer = [i \in 0 .. (RxBufSizePar - 1) |-> NUL]

\* Command lines arrive and the handler is polled.
SpecPar == InitPar({"period", "padding"}) /\ [][(\E l \in ParLines : if_receive_line(l)) \/ cli_hndl]_vars

----------------------------------------------------------------------------
(* The channel command                                                     *)

\* ch_en for every channel, and for a channel that does not exist.
ChLines ==
    { <<"c","h","_","e","n",SP,"0",",","1">>,
      <<"c","h","_","e","n",SP,"1",",","1">>,
      <<"c","h","_","e","n",SP,"2",",","1">>,
      <<"c","h","_","e","n",SP,"1",",","0">>,
      <<"c","h","_","e","n",SP,"3",",","1">> }

\* Channel commands arrive and the handler is polled.
SpecCh == InitLines /\ [][(\E l \in ChLines : if_receive_line(l)) \/ cli_hndl]_vars

\* The line "ch_en c,1" and its attribute.
ChEnAttr(ch) == <<Digits[ch + 1], ",", "1">>
ChEnLine(ch) == <<"c","h","_","e","n",SP>> \o ChEnAttr(ch)

\* What the handler call that completed "ch_en c,1" did, but for its answer.
ChEnDone(ch) ==
    /\ Len(ev.cmd) = 1
    /\ calls = << [func |-> "cli_ch_en", attr |-> ChEnAttr(ch)] >>
    /\ ch_en[ch]

----------------------------------------------------------------------------
(* Parameter commands: properties of cli_par_get, cli_par_set and          *)
(* cli_status_des                                                          *)

\* IDs no parameter of the table has.
MissingIds == {0, 9}

ParGetLine(id) == <<"p","a","r","_","g","e","t",SP>> \o <<Digits[id + 1]>>

\* C23: for every ID no parameter has, the call of cli_hndl that completes
\* the line "par_get <id>" answers "ERR, Wrong parameter ID!" and nothing
\* else (no "OK," line), calls neither par_get nor par_set of the parameter
\* store (cli_par_get is the only function called), and leaves the
\* parameter values as they were.
C23_ParGetMissingId ==
    [][ \A id \in MissingIds :
          (ev'.op = "cli_hndl" /\ ev'.cmd = <<ParGetLine(id)>>) =>
              /\ tx' = << "ERR, Wrong parameter ID!", "\r\n" >>
              /\ calls' = << [func |-> "cli_par_get", attr |-> <<Digits[id + 1]>>] >>
              /\ par_values' = par_values
      ]_vars

\* The case of the specification: "par_get 9" was answered.
C23_Witness ==
    /\ ev.op = "cli_hndl"
    /\ ev.cmd = <<ParGetLine(9)>>
    /\ tx = << "ERR, Wrong parameter ID!", "\r\n" >>

\* The lines that set parameter 1 (maximum 9) to 5 and to 12.
ParSetAccepted == <<"p","a","r","_","s","e","t",SP,"1",",","5">>
ParSetRejected == <<"p","a","r","_","s","e","t",SP,"1",",","1","2">>

\* C24: cli_par_set answers "OK,PAR_SET=" only when par_set returned ePAR_OK:
\* the accepted write is answered with the "OK,PAR_SET=" line alone, the
\* rejected write with an "ERR," line alone.
C24_OkOnlyWhenAccepted ==
    /\ (ev.op = "cli_hndl" /\ ev.cmd = <<ParSetAccepted>>) =>
           tx = << "OK,PAR_SET=5", "\r\n" >>
    /\ (ev.op = "cli_hndl" /\ ev.cmd = <<ParSetRejected>>) =>
           tx = << "ERR, err_code: 1", "\r\n" >>

\* C28: the live watch list is bounded: num_of never exceeds
\* CLI_CFG_PAR_MAX_IN_LIVE_WATCH and nothing is written behind par_list.
C28_WatchBounded ==
    /\ g_cli_live_watch.num_of <= CLI_CFG_PAR_MAX_IN_LIVE_WATCH
    /\ ~g_cli_live_watch.oob

----------------------------------------------------------------------------
(* Initialization and the live watch data in NVM                           *)

\* The live watch commands of the terminal: a list that fills the capacity
\* and the command that saves the list to NVM.
NvmLines ==
    { <<"s","t","a","t","u","s","_","d","e","s",SP,"1",",","2">>,
      <<"s","t","a","t","u","s","_","s","a","v","e">> }

\* The module before cli_init, built with CLI_CFG_PAR_USE_EN == 1 and with
\* or without CLI_CFG_STREAM_NVM_EN; the NVM region is blank, and the device
\* can fail to initialize and to read.
InitNvm ==
    /\ gb_is_init = FALSE
    /\ \E nvm_en \in BOOLEAN :
          InitModuleWith([DefaultCfg EXCEPT
                            !.par_use_en = TRUE,
                            !.stream_nvm_en = nvm_en,
                            !.nvm_faults = {"nvm_init", "header", "par_list"}])
    /\ ch_en = [ch \in 0 .. (eCLI_CH_NUM_OF - 1) |-> FALSE]
    /\ gu8_rx_buffer = [i \in 0 .. (RxBufSizePar - 1) |-> NUL]

\* The application initializes, asks and de-initializes the module in any
\* order while command lines arrive and the handler is polled.
SpecNvm ==
    InitNvm /\ [][\/ cli_init
                  \/ cli_deinit
                  \/ cli_is_init
                  \/ \E l \in NvmLines : if_receive_line(l)
                  \/ cli_hndl]_vars

\* C29: cli_init returns eCLI_OK only from the uninitialized state and
\* cli_deinit only from the initialized state; a cli_init of an initialized
\* module and a cli_deinit of an uninitialized one return eCLI_ERROR_INIT and
\* leave the flag as it is; a failing cli_if_init or cli_if_deinit fails the
\* call and leaves the flag as it is, while a cli_if_init that succeeds
\* leaves the module initialized (so does init, deinit, init); cli_is_init
\* reports the flag and does not change it.
C29_InitLifecycle ==
    [][ /\ (ev'.op = "cli_init") =>
            /\ (ev'.status = eCLI_OK => ~gb_is_init /\ gb_is_init')
            /\ (gb_is_init => ev'.status = eCLI_ERROR_INIT /\ gb_is_init')
            /\ (~gb_is_init /\ ev'.arg # eCLI_OK =>
                    ev'.status # eCLI_OK /\ ~gb_is_init')
            /\ (~gb_is_init /\ ev'.arg = eCLI_OK => gb_is_init')
        /\ (ev'.op = "cli_deinit") =>
            /\ (ev'.status = eCLI_OK => gb_is_init /\ ~gb_is_init')
            /\ (~gb_is_init => ev'.status = eCLI_ERROR_INIT /\ ~gb_is_init')
            /\ (gb_is_init /\ ev'.arg # eCLI_OK =>
                    ev'.status # eCLI_OK /\ gb_is_init')
        /\ (ev'.op = "cli_is_init" /\ ev'.status = eCLI_OK) =>
            /\ ev'.arg = (IF gb_is_init THEN "true" ELSE "false")
            /\ gb_is_init' = gb_is_init
      ]_vars

\* A second cli_init of the NVM build was refused after the first one read
\* a saved list: the module is still initialized.
C29_Witness ==
    /\ ev.op = "cli_init"
    /\ ev.arg = ""
    /\ ev.status = eCLI_ERROR_INIT
    /\ gb_is_init
    /\ cfg.stream_nvm_en
    /\ nvm.written

\* C30: a cli_init that starts uninitialized and returns a status other
\* than eCLI_OK leaves the module uninitialized, also when nvm_init or
\* cli_nvm_read is what failed.
C30_FailedInitUninitialised ==
    [][ (ev'.op = "cli_init" /\ ~gb_is_init /\ ev'.status # eCLI_OK)
            => ~gb_is_init' ]_vars

\* C25: after cli_nvm_write saved a live watch configuration with num_of
\* within the capacity and a later cli_nvm_read returned eCLI_OK, the period,
\* the active flag, num_of and the first num_of entries of par_list are the
\* saved ones.
C25_NvmRoundTrip ==
    ( /\ cfg.stream_nvm_en
      /\ ev.op = "cli_init"
      /\ ev.arg = eCLI_OK
      /\ ev.status = eCLI_OK
      /\ nvm.written
      /\ nvm.saved.num_of <= CLI_CFG_PAR_MAX_IN_LIVE_WATCH ) =>
        /\ g_cli_live_watch.period = nvm.saved.period
        /\ g_cli_live_watch.active = nvm.saved.active
        /\ g_cli_live_watch.num_of = nvm.saved.num_of
        /\ \A i \in 0 .. (nvm.saved.num_of - 1) :
              g_cli_live_watch.par_list[i] = nvm.saved.par_list[i]

----------------------------------------------------------------------------
(* Reception of a line that stalls                                         *)

\* The reception stalls: a part of a line is in the buffer, nothing waits in
\* the transport, and more than the timeout duration passes since the first
\* byte of the line. cli.c reads no clock, so no object of the module changes.
timeout_elapses ==
    /\ buf_idx > 0
    /\ rx_fifo = <<>>
    /\ ev.op # "timeout_elapsed"
    /\ ev' = [NoEvent EXCEPT !.op = "timeout_elapsed"]
    /\ tx' = <<>>
    /\ calls' = <<>>
    /\ UNCHANGED <<gb_is_init, gu8_rx_buffer, buf_idx, rx_fifo, line_clean, ovr,
                   rx_tail, ch_en, regVars, gu8_tx_buffer, auxVars>>

\* Single bytes arrive, the reception may stall, and the handler is polled.
SpecTimeout == Init /\ [][Next \/ timeout_elapses]_vars

\* C21: the call of cli_hndl that follows a stalled reception (a partial
\* line in the buffer for longer than the timeout) dispatches nothing,
\* reports an error and leaves the buffer empty, cursor at 0.
C21_ReceptionTimeout ==
    [][ (ev.op = "timeout_elapsed" /\ ev'.op = "cli_hndl") =>
            /\ ev'.status # eCLI_OK
            /\ ev'.cmd = <<>>
            /\ buf_idx' = 0 ]_vars

----------------------------------------------------------------------------
(* cli_osci.c: the software oscilloscope                                   *)

\* A command of g_cli_osci_table was dispatched by cli_hndl: what it printed
\* and the control block it leaves.
OsciCommand(op, p_attr, c, osci) ==
    /\ g_cli_osci' = osci
    /\ ev' = [NoEvent EXCEPT !.op = op, !.oob = c.oob,
                             !.arg = IF p_attr = NULL THEN "" ELSE Str(p_attr)]
    /\ tx' = c.tx
    /\ gu8_tx_buffer' = c.txbuf
    /\ calls' = <<>>
    /\ UNCHANGED <<gb_is_init, gu8_rx_buffer, buf_idx, rx_fifo, line_clean, ovr,
                   rx_tail, ch_en, regVars, cfg, pc, mutex, tx_overrun,
                   g_cli_live_watch, nvm, par_values, loop_cnt>>

\* cli_osci_channel without attribute, with a list of n existing parameter
\* IDs (<<"1">>: the IDs of the table, in turn) or with an ID that does not
\* exist (<<"9">>). The loop runs while num_of <= CLI_CFG_PAR_MAX_IN_OSCI, so
\* the ID after the last cell is stored at list[CLI_CFG_PAR_MAX_IN_OSCI]:
\* behind the array, which is padding or the low half of channel.num_of,
\* as the layout of the build has it (oob notes the write).
cli_osci_channel(p_attr, n) ==
    \E after_list \in (IF p_attr = <<"1">> /\ n > CLI_CFG_PAR_MAX_IN_OSCI
                          /\ g_cli_osci.state \in {"IDLE", "DONE"}
                       THEN {"padding", "num_of"} ELSE {"padding"}) :
        LET par_num(k) == k % Len(ParTable)
            stored == [k \in 0 .. (CLI_CFG_PAR_MAX_IN_OSCI - 1) |->
                         IF k < n THEN par_num(k) ELSE g_cli_osci.ch_list[k]]
            oob    == n > CLI_CFG_PAR_MAX_IN_OSCI
            num_of == IF oob /\ after_list = "num_of"
                      THEN par_num(CLI_CFG_PAR_MAX_IN_OSCI) + 1
                      ELSE n
            RECURSIVE Names(_, _)
            Names(c, par_idx) ==
                IF par_idx >= num_of THEN c
                ELSE Names(cli_send_str(c, "," \o ParTable[stored[par_idx] + 1].name),
                           par_idx + 1)
        IN  IF p_attr = NULL
            THEN OsciCommand("cli_osci_channel", p_attr, cli_unknown(Context), g_cli_osci)
            ELSE IF g_cli_osci.state \notin {"IDLE", "DONE"}
            THEN OsciCommand("cli_osci_channel", p_attr,
                     cli_printf(Context, "WAR, Oscilloscope cfg cannot be changed during sampling!"),
                     g_cli_osci)
            ELSE IF p_attr = <<"9">>
            THEN OsciCommand("cli_osci_channel", p_attr,
                     cli_printf(cli_printf(Context, "ERR, Wrong parameter ID! ID: 9 does not exsist!"),
                                "ERR, Invalid number of osci channels!"),
                     [g_cli_osci EXCEPT !.ch_num_of = 0])
            ELSE IF num_of > 0 /\ num_of <= CLI_CFG_PAR_MAX_IN_OSCI
            THEN OsciCommand("cli_osci_channel", p_attr,
                     cli_printf(Names(cli_send_str([Context EXCEPT !.txbuf = "OK", !.oob = oob],
                                                   "OK"), 0), ""),
                     [g_cli_osci EXCEPT !.ch_num_of = num_of, !.ch_list = stored])
            ELSE OsciCommand("cli_osci_channel", p_attr,
                     cli_printf([Context EXCEPT !.oob = oob],
                                "ERR, Invalid number of osci channels!"),
                     [g_cli_osci EXCEPT !.ch_num_of = 0, !.ch_list = stored])

\* cli_osci_trigger without attribute or with four scanned values: the type,
\* the ID of an existing parameter, a threshold and the pretrigger (in percent
\* of the buffer).
cli_osci_trigger(p_attr, type, pretrigger) ==
        LET num_of_samp == CLI_OSCI_SAMP_BUF_NUM_OF_SAMP \div g_cli_osci.ch_num_of
        IN  IF p_attr = NULL
            THEN OsciCommand("cli_osci_trigger", p_attr, cli_unknown(Context), g_cli_osci)
            ELSE IF g_cli_osci.state \notin {"IDLE", "DONE"}
            THEN OsciCommand("cli_osci_trigger", p_attr,
                     cli_printf(Context, "WAR, Oscilloscope cfg cannot be changed during sampling!"),
                     g_cli_osci)
            ELSE IF g_cli_osci.ch_num_of = 0
            THEN OsciCommand("cli_osci_trigger", p_attr,
                     cli_printf(Context, "ERR, Invalid trigger settings! Set channels first!"),
                     g_cli_osci)
            ELSE IF type = "NUM_OF"
            THEN OsciCommand("cli_osci_trigger", p_attr,
                     cli_printf(Context, "ERR, Invalid trigger settings!"), g_cli_osci)
            ELSE OsciCommand("cli_osci_trigger", p_attr,
                     cli_printf(Context, "OK, Oscilloscope trigger set!"),
                     [g_cli_osci EXCEPT
                        !.trig_type = type,
                        !.num_of_samp = num_of_samp,
                        !.trig_idx = (pretrigger * num_of_samp) \div 100])

\* A cli_osci_downsample that sets the factor in whatever state the
\* oscilloscope is.
cli_osci_downsample_any_state(p_attr) ==
    IF p_attr = NULL
    THEN OsciCommand("cli_osci_downsample", p_attr, cli_unknown(Context), g_cli_osci)
    ELSE OsciCommand("cli_osci_downsample", p_attr,
             cli_printf(Context, "WAR, Oscilloscope cfg cannot be changed during sampling!"),
             [g_cli_osci EXCEPT !.downsample_factor = ScanU(p_attr, 0).val + 1])

\* cli_osci_downsample with no attribute or with one scanned factor.
cli_osci_downsample(p_attr) ==
        LET downsample == IF p_attr = NULL THEN 0 ELSE ScanU(p_attr, 0).val
        IN  IF p_attr = NULL
            THEN OsciCommand("cli_osci_downsample", p_attr, cli_unknown(Context), g_cli_osci)
            ELSE IF g_cli_osci.state \notin {"IDLE", "DONE"}
            THEN OsciCommand("cli_osci_downsample", p_attr,
                     cli_printf(Context, "WAR, Oscilloscope cfg cannot be changed during sampling!"),
                     g_cli_osci)
            ELSE IF downsample > 0 /\ downsample <= 1000
            THEN OsciCommand("cli_osci_downsample", p_attr,
                     cli_printf(Context, "OK, Oscilloscope downsample set!"),
                     [g_cli_osci EXCEPT !.downsample_factor = downsample])
            ELSE OsciCommand("cli_osci_downsample", p_attr,
                     cli_printf(Context, "ERR, Invalid downsample settings!"), g_cli_osci)

\* A cli_osci_start that starts in whatever state the oscilloscope is.
cli_osci_start_any_state ==
    OsciCommand("cli_osci_start", NULL, cli_printf(Context, "OK, Osci started!"),
                [g_cli_osci EXCEPT !.buf = 0, !.state = "WAITING"])

\* cli_osci_start
cli_osci_start ==
    \E p_attr \in {NULL, <<"1">>} :
        IF p_attr # NULL
        THEN OsciCommand("cli_osci_start", p_attr, cli_unknown(Context), g_cli_osci)
        ELSE IF g_cli_osci.state \notin {"IDLE", "DONE"}
        THEN OsciCommand("cli_osci_start", p_attr,
                 cli_printf(Context, "WAR, Oscilloscope is already running..."), g_cli_osci)
        ELSE IF g_cli_osci.ch_num_of > 0
        THEN OsciCommand("cli_osci_start", p_attr,
                 cli_printf(Context, "OK, Osci started!"),
                 [g_cli_osci EXCEPT !.buf = 0, !.state = "WAITING"])
        ELSE OsciCommand("cli_osci_start", p_attr,
                 cli_printf(Context, "ERR, Oscilloscope is not configured!"), g_cli_osci)

\* A cli_osci_stop that answers and leaves the state as it is.
cli_osci_stop_answer_only ==
    OsciCommand("cli_osci_stop", NULL, cli_printf(Context, "OK, Osci stopped!"),
                g_cli_osci)

\* cli_osci_stop
cli_osci_stop ==
    \E p_attr \in {NULL, <<"1">>} :
        IF p_attr # NULL
        THEN OsciCommand("cli_osci_stop", p_attr, cli_unknown(Context), g_cli_osci)
        ELSE OsciCommand("cli_osci_stop", p_attr,
                 cli_printf(Context, "OK, Osci stopped!"),
                 [g_cli_osci EXCEPT !.state = "IDLE"])

\* A sampling handler that reports each invocation on the output channel.
cli_osci_samp_hndl_reports ==
    /\ ev' = [NoEvent EXCEPT !.op = "cli_osci_samp_hndl"]
    /\ tx' = cli_printf(Context, "OK, sample").tx
    /\ gu8_tx_buffer' = cli_printf(Context, "OK, sample").txbuf
    /\ calls' = <<>>
    /\ UNCHANGED <<gb_is_init, gu8_rx_buffer, buf_idx, rx_fifo, line_clean, ovr,
                   rx_tail, ch_en, regVars, auxVars>>

\* cli_osci_samp_hndl, called every sampling period (from an interrupt or a
\* task that the command handlers do not preempt): the downsample counter,
\* then osci_state_waiting_hndl or osci_state_sapling_hndl. `detected` is the
\* result of the trigger function on the value of the trigger parameter
\* (kept in ev.arg); buf counts the calls of ring_buffer_add since the last
\* ring_buffer_reset; calls holds the functions of other modules called, in
\* order.
cli_osci_samp_hndl ==
    \E detected \in (IF /\ g_cli_osci.samp_cnt >= ToUint32(g_cli_osci.downsample_factor - 1)
                        /\ g_cli_osci.state = "WAITING"
                        /\ g_cli_osci.trig_type # "NONE"
                        /\ g_cli_osci.pretrigger_samp_cnt + 1 >= g_cli_osci.trig_idx
                     THEN BOOLEAN ELSE {FALSE}) :
        LET RECURSIVE TakeSampleCalls(_)
            TakeSampleCalls(num_of) ==
                IF num_of = 0 THEN <<>>
                ELSE TakeSampleCalls(num_of - 1)
                        \o <<[func |-> "cli_util_par_val_to_float", attr |-> <<>>],
                             [func |-> "ring_buffer_add", attr |-> <<>>]>>
            o    == g_cli_osci
            run  == o.samp_cnt >= ToUint32(o.downsample_factor - 1)
            cli_osci_take_sample(osci) ==
                [osci EXCEPT !.buf = @ + osci.ch_num_of]
            osci_state_waiting_hndl ==
                IF o.trig_type = "NONE"
                THEN [o EXCEPT !.state = "SAMPLING", !.idx = o.num_of_samp]
                ELSE LET s1 == [cli_osci_take_sample(o) EXCEPT
                                  !.pretrigger_samp_cnt = @ + 1]
                     IN  IF s1.pretrigger_samp_cnt >= o.trig_idx /\ detected
                         THEN [s1 EXCEPT !.state = "SAMPLING",
                                         !.pretrigger_samp_cnt = 0,
                                         !.idx = o.num_of_samp - o.trig_idx - 1]
                         ELSE s1
            osci_state_sapling_hndl ==
                LET s1 == [cli_osci_take_sample(o) EXCEPT !.idx = @ - 1]
                IN  IF s1.idx <= 0
                    THEN [s1 EXCEPT !.state = "DONE", !.idx = 0]
                    ELSE s1
            handled == IF o.state = "WAITING" THEN osci_state_waiting_hndl
                       ELSE IF o.state = "SAMPLING" THEN osci_state_sapling_hndl
                       ELSE o
            samples == (o.state = "SAMPLING") \/ (o.state = "WAITING" /\ o.trig_type # "NONE")
        IN  /\ (run /\ o.state = "WAITING" /\ o.trig_type # "NONE")
                    => o.pretrigger_samp_cnt < MaxPretriggerSamples
            /\ g_cli_osci' = IF run THEN [handled EXCEPT !.samp_cnt = 0]
                             ELSE [o EXCEPT !.samp_cnt = @ + 1]
            /\ ev' = [NoEvent EXCEPT !.op = "cli_osci_samp_hndl",
                                     !.arg = IF detected THEN "trigger" ELSE ""]
            /\ calls' = IF run /\ samples
                        THEN TakeSampleCalls(o.ch_num_of)
                             \o (IF o.state = "WAITING"
                                 THEN <<[func |-> "cli_util_par_val_to_float", attr |-> <<>>]>>
                                 ELSE <<>>)
                        ELSE <<>>
            /\ UNCHANGED <<gb_is_init, gu8_rx_buffer, buf_idx, rx_fifo, line_clean,
                           ovr, rx_tail, tx, ch_en, regVars, gu8_tx_buffer, cfg, pc,
                           mutex, tx_overrun, g_cli_live_watch, nvm, par_values,
                           loop_cnt>>

\* The module after cli_init and cli_osci_init returned eCLI_OK; the
\* downsample factor is one of factors: the 1 of cli_osci_init, or a factor it
\* was set to.
InitOsci(factors) ==
    /\ gb_is_init = TRUE
    /\ \E downsample \in factors :
          InitStatics([DefaultCfg EXCEPT !.par_use_en = TRUE],
                      [OsciReset EXCEPT !.downsample_factor = downsample])
    /\ ch_en = [ch \in 0 .. (eCLI_CH_NUM_OF - 1) |-> FALSE]
    /\ gu8_rx_buffer = [i \in 0 .. (RxBufSizeBytes - 1) |-> NUL]

\* The terminal sets channels and trigger, starts and stops the oscilloscope
\* while the sampling handler is called.
SpecOsci ==
    InitOsci(1 .. 2)
             /\ [][\/ \E n \in 1 .. CLI_CFG_PAR_MAX_IN_OSCI : cli_osci_channel(<<"1">>, n)
                   \/ \E type \in {"NONE", "EDGE_RISING"} : \E pretrigger \in {0, 100} :
                          cli_osci_trigger(<<"1">>, type, pretrigger)
                   \/ cli_osci_start
                   \/ cli_osci_stop
                   \/ cli_osci_samp_hndl]_vars

\* The terminal sends every configuration command, well formed or not, while
\* an oscilloscope without pretrigger, left at the downsample factor of
\* cli_osci_init, is started, stopped and sampled.
SpecOsciCfg ==
    InitOsci({1})
             /\ [][\/ \E n \in 1 .. (CLI_CFG_PAR_MAX_IN_OSCI + 1) :
                          cli_osci_channel(<<"1">>, n)
                   \/ \E p_attr \in {NULL, <<"9">>} : cli_osci_channel(p_attr, 1)
                   \/ \E type \in {"NONE", "EDGE_RISING", "NUM_OF"} :
                          cli_osci_trigger(<<"1">>, type, 0)
                   \/ cli_osci_trigger(NULL, "NONE", 0)
                   \/ \E p_attr \in {NULL, <<"0">>, <<"1">>} :
                          cli_osci_downsample(p_attr)
                   \/ cli_osci_start
                   \/ cli_osci_stop
                   \/ cli_osci_samp_hndl]_vars

\* The calls of ring_buffer_add among the calls of the last operation.
SamplesAdded == { i \in DOMAIN calls : calls[i].func = "ring_buffer_add" }

C27_SamplingHookSilent ==
    [][ (ev'.op = "cli_osci_samp_hndl") =>
            /\ tx' = tx
            /\ gu8_tx_buffer' = gu8_tx_buffer
            /\ mutex' = mutex
            /\ pc' = pc
            /\ \A i \in DOMAIN calls' :
                  calls'[i].func \in {"cli_util_par_val_to_float", "ring_buffer_add"}
      ]_vars

\* The sampling handler took the last sample of a sampling that the command
\* osci_start had started: samples were stored, the state is DONE and the
\* answer of osci_start is still the last output.
C27_Witness ==
    /\ ev.op = "cli_osci_samp_hndl"
    /\ g_cli_osci.state = "DONE"
    /\ SamplesAdded # {}
    /\ tx = <<"OK, Osci started!", Str(CLI_CFG_TERMINATION_STRING)>>

----------------------------------------------------------------------------
(* The reception buffer across a re-initialization                         *)

\* Single bytes arrive, the handler is polled, and the application stops and
\* starts the module again.
SpecReinit == Init /\ [][Next \/ cli_deinit \/ cli_init]_vars

\* C31: after every successful cli_init, a re-initialization that follows
\* cli_deinit with a partial line in the buffer included, the reception
\* buffer is empty: the cursor is 0, so the line accumulated from then on
\* (the first line dispatched) starts with a byte received after that
\* cli_init.
C31_EmptyAfterInit ==
    [][ (ev'.op = "cli_init" /\ ev'.status = eCLI_OK) => buf_idx' = 0 ]_vars

----------------------------------------------------------------------------
(* The registry as a bounded array                                         *)

----------------------------------------------------------------------------
(* The bound of the reception cursor                                       *)

\* C33: in every reachable state 0 <= buf_idx <= CLI_CFG_RX_BUF_SIZE - 2;
\* the cursor advances only from a position below capacity minus 2, no
\* received byte is stored at the last index of the buffer, and that last
\* byte stays NUL, so the search for the termination string ends inside the
\* buffer.
C33_CursorBound ==
    [][ /\ buf_idx' \in 0 .. (CLI_CFG_RX_BUF_SIZE - 2)
        /\ buf_idx' > buf_idx => buf_idx < CLI_CFG_RX_BUF_SIZE - 2
        /\ gu8_rx_buffer'[CLI_CFG_RX_BUF_SIZE - 1] = NUL
        /\ strend(gu8_rx_buffer', 0) <= CLI_CFG_RX_BUF_SIZE - 1
      ]_vars

\* The buffer overflowed: the last byte received was stored at index
\* capacity minus 2 and the cell after it is still NUL.
C33_Witness ==
    /\ Overflowed
    /\ \A i \in 0 .. (CLI_CFG_RX_BUF_SIZE - 2) : gu8_rx_buffer[i] # NUL
    /\ gu8_rx_buffer[CLI_CFG_RX_BUF_SIZE - 1] = NUL
    /\ buf_idx = 0

----------------------------------------------------------------------------
(* Oscilloscope: sampling without and with a trigger                       *)

\* C34: with trigger type NONE a started oscilloscope samples the full
\* buffer: when the sampling handler enters DONE, it has taken exactly
\* floor(CLI_OSCI_SAMP_BUF_NUM_OF_SAMP / number of channels) sample groups
\* since osci_start, whatever commands came before (osci_trigger issued or
\* not, channels set again after the last osci_trigger).
C34_FullBufferNoTrigger ==
    [][ ( /\ ev'.op = "cli_osci_samp_hndl"
          /\ g_cli_osci.trig_type = "NONE"
          /\ g_cli_osci.state = "SAMPLING"
          /\ g_cli_osci'.state = "DONE" )
        => g_cli_osci'.buf
             = (CLI_OSCI_SAMP_BUF_NUM_OF_SAMP \div g_cli_osci.ch_num_of)
                  * g_cli_osci.ch_num_of ]_vars

\* C35: with a trigger configured the oscilloscope leaves WAITING for
\* SAMPLING only when the trigger condition holds and at least trig_idx
\* sample groups have been taken since the osci_start that began the
\* session, also in a session started after an osci_stop during WAITING.
C35_PretriggerDone ==
    [][ ( /\ ev'.op = "cli_osci_samp_hndl"
          /\ g_cli_osci.trig_type # "NONE"
          /\ g_cli_osci.state = "WAITING"
          /\ g_cli_osci'.state = "SAMPLING" )
        => /\ ev'.arg = "trigger"
           /\ g_cli_osci'.buf >= g_cli_osci.trig_idx * g_cli_osci.ch_num_of ]_vars

----------------------------------------------------------------------------
(* Oscilloscope: the commands and the states                               *)

\* The output of a command that answers with one line.
Answer(text) == <<text, Str(CLI_CFG_TERMINATION_STRING)>>

OsciRunning == {"WAITING", "SAMPLING"}

\* The only changes of the oscilloscope state: IDLE or DONE to WAITING by
\* osci_start, WAITING to SAMPLING and SAMPLING to DONE by the sampling
\* handler, any state to IDLE by osci_stop.
OsciTransition ==
    g_cli_osci'.state # g_cli_osci.state =>
        \/ /\ ev'.op = "cli_osci_start"
           /\ g_cli_osci.state \in {"IDLE", "DONE"}
           /\ g_cli_osci'.state = "WAITING"
           /\ g_cli_osci.ch_num_of > 0
           /\ g_cli_osci'.buf = 0
        \/ /\ ev'.op = "cli_osci_samp_hndl"
           /\ <<g_cli_osci.state, g_cli_osci'.state>>
                \in {<<"WAITING", "SAMPLING">>, <<"SAMPLING", "DONE">>}
        \/ /\ ev'.op = "cli_osci_stop"
           /\ g_cli_osci'.state = "IDLE"

\* C36 as stated: osci_start moves the oscilloscope to WAITING only from
\* IDLE or DONE and only with at least one channel, resetting the sample
\* buffer; in WAITING or SAMPLING every osci_start leaves state and sample
\* buffer unchanged and answers with a WAR line; with no channel it leaves
\* the state unchanged and answers with an ERR line; the state changes only
\* by the listed transitions.
C36_Original ==
    [][ /\ OsciTransition
        /\ (ev'.op = "cli_osci_start" /\ g_cli_osci.state \in OsciRunning) =>
              /\ g_cli_osci'.state = g_cli_osci.state
              /\ g_cli_osci'.buf = g_cli_osci.buf
              /\ tx' = Answer("WAR, Oscilloscope is already running...")
        /\ (ev'.op = "cli_osci_start" /\ g_cli_osci.ch_num_of = 0) =>
              /\ g_cli_osci'.state = g_cli_osci.state
              /\ tx' \in {Answer("ERR, Oscilloscope is not configured!"),
                          Answer("ERR, Unknown command!")}
      ]_vars

\* C36 (amended): the same for an osci_start without attribute, which from
\* IDLE or DONE with a channel configured enters WAITING, resets the sample
\* buffer and answers OK; an osci_start with an attribute changes nothing in
\* any state and answers "ERR, Unknown command!".
C36_StartTransitions ==
    [][ /\ OsciTransition
        /\ (ev'.op = "cli_osci_start" /\ ev'.arg = "") =>
              /\ g_cli_osci.state \in OsciRunning =>
                    /\ g_cli_osci'.state = g_cli_osci.state
                    /\ g_cli_osci'.buf = g_cli_osci.buf
                    /\ tx' = Answer("WAR, Oscilloscope is already running...")
              /\ (g_cli_osci.state \notin OsciRunning /\ g_cli_osci.ch_num_of = 0) =>
                    /\ g_cli_osci'.state = g_cli_osci.state
                    /\ tx' = Answer("ERR, Oscilloscope is not configured!")
              /\ (g_cli_osci.state \notin OsciRunning /\ g_cli_osci.ch_num_of > 0) =>
                    /\ g_cli_osci'.state = "WAITING"
                    /\ g_cli_osci'.buf = 0
                    /\ tx' = Answer("OK, Osci started!")
        /\ (ev'.op = "cli_osci_start" /\ ev'.arg # "") =>
              /\ g_cli_osci' = g_cli_osci
              /\ tx' = Answer("ERR, Unknown command!")
      ]_vars

\* An osci_start was refused with the warning while samples were taken: the
\* state is still SAMPLING and the samples taken so far are kept.
C36_Witness ==
    /\ ev.op = "cli_osci_start"
    /\ ev.arg = ""
    /\ g_cli_osci.state = "SAMPLING"
    /\ g_cli_osci.buf > 0
    /\ tx = Answer("WAR, Oscilloscope is already running...")

\* The channel list and count, the trigger settings and the downsample
\* factor.
OsciConfig(o) ==
    <<o.ch_list, o.ch_num_of, o.trig_type, o.trig_idx, o.num_of_samp,
      o.downsample_factor>>

OsciConfigCommands == {"cli_osci_channel", "cli_osci_trigger", "cli_osci_downsample"}

\* C37 as stated: while the state is WAITING or SAMPLING, every
\* osci_channel, osci_trigger and osci_downsample leaves the channel list,
\* the channel count, the trigger settings and the downsample factor
\* unchanged and answers with a WAR line.
C37_Original ==
    [][ (ev'.op \in OsciConfigCommands /\ g_cli_osci.state \in OsciRunning) =>
            /\ OsciConfig(g_cli_osci') = OsciConfig(g_cli_osci)
            /\ tx' = Answer("WAR, Oscilloscope cfg cannot be changed during sampling!")
      ]_vars

\* C37 (amended): while the state is WAITING or SAMPLING, osci_channel,
\* osci_trigger and osci_downsample leave the control block unchanged; with
\* an attribute they answer with the WAR line, without one with
\* "ERR, Unknown command!".
C37_ConfigLocked ==
    [][ (ev'.op \in OsciConfigCommands /\ g_cli_osci.state \in OsciRunning) =>
            /\ g_cli_osci' = g_cli_osci
            /\ ev'.arg # "" =>
                  tx' = Answer("WAR, Oscilloscope cfg cannot be changed during sampling!")
            /\ ev'.arg = "" => tx' = Answer("ERR, Unknown command!")
      ]_vars

\* The list holds two channels and a rising edge trigger is set; an
\* osci_channel with one ID sent while waiting for the trigger was answered
\* with the warning.
C37_Witness ==
    /\ ev.op = "cli_osci_channel"
    /\ ev.arg = "1"
    /\ g_cli_osci.state = "WAITING"
    /\ g_cli_osci.ch_num_of = 2
    /\ g_cli_osci.trig_type = "EDGE_RISING"
    /\ tx = Answer("WAR, Oscilloscope cfg cannot be changed during sampling!")

\* C38: osci_channel never writes behind the channel list (at an index >=
\* CLI_CFG_PAR_MAX_IN_OSCI) and the channel count never exceeds
\* CLI_CFG_PAR_MAX_IN_OSCI; a list of more than CLI_CFG_PAR_MAX_IN_OSCI
\* valid IDs is answered with "ERR, Invalid number of osci channels!" and
\* leaves the count 0.
C38_ChannelListBounded ==
    /\ g_cli_osci.ch_num_of <= CLI_CFG_PAR_MAX_IN_OSCI
    /\ ev.op = "cli_osci_channel" => ~ev.oob

----------------------------------------------------------------------------
(* The rate of the live watch                                              *)

\* The live watch commands: lists with two and with no parameters, start and
\* stop, and status_rate with a period below the range, the handler period, a
\* period that is not a multiple of it, and a multiple of it.
RateLines ==
    LET RatePeriods == <<5, 10, 15, 30>>
        RECURSIVE DigitSeq(_)
        DigitSeq(n) == IF n < 10 THEN <<Digits[n + 1]>>
                       ELSE Append(DigitSeq(n \div 10), Digits[(n % 10) + 1])
    IN  { <<"s","t","a","t","u","s","_","d","e","s",SP,"1",",","2">>,
          <<"s","t","a","t","u","s","_","d","e","s",SP,"9">>,
          <<"s","t","a","t","u","s","_","s","t","a","r","t">>,
          <<"s","t","a","t","u","s","_","s","t","o","p">> }
        \cup { <<"s","t","a","t","u","s","_","r","a","t","e",SP>> \o DigitSeq(RatePeriods[i]) :
                 i \in DOMAIN RatePeriods }

\* Live watch commands arrive and the handler is polled; period follows
\* par_list in cli_live_watch_t.
SpecRate == InitPar({"period"})
            /\ [][(\E l \in RateLines : if_receive_line(l)) \/ cli_hndl]_vars

\* The period asked for by the command the handler call completed, and -1
\* when the command was not a status_rate with a period.
AskedPeriod(e) ==
    LET cmd  == IF Len(e.cmd) = 1 THEN e.cmd[1] ELSE <<>>
        name == <<"s","t","a","t","u","s","_","r","a","t","e",SP>>
    IN  IF Len(cmd) > Len(name) /\ SubSeq(cmd, 1, Len(name)) = name
        THEN ScanU(SubSeq(cmd, Len(name) + 1, Len(cmd)), 0).val
        ELSE -1

\* A period status_rate accepts.
ValidPeriod(period) ==
    /\ period >= CLI_CFG_HNDL_PERIOD_MS
    /\ period <= 60000
    /\ period % CLI_CFG_HNDL_PERIOD_MS = 0

\* The live watch is active and its list holds a parameter.
LiveWatchOn(lw) == lw.active /\ lw.num_of > 0

\* The transmission ends with the live watch line of a list of n parameters:
\* the values with commas between them, then the empty text and the
\* termination string.
LiveLine(t, n) ==
    LET first == Len(t) - 2 * n
    IN  /\ n > 0
        /\ first >= 1
        /\ \A k \in 0 .. (n - 1) :
              t[first + 2 * k] \in { UToStr(v) : v \in 0 .. 9 }
        /\ \A k \in 0 .. (n - 2) : t[first + 2 * k + 1] = ","
        /\ t[Len(t) - 1] = ""
        /\ t[Len(t)] = Str(CLI_CFG_TERMINATION_STRING)

\* C39: the handler counts its calls modulo period_cnt: the count stays below
\* period_cnt, a call moves it from period_cnt - 1 (or, right after the period
\* was lowered, from a count at or above it) to 0 and from any other count to
\* the next, so that with an unchanged period one call in every period_cnt
\* calls wraps it.  The call that wraps the count emits one live watch line
\* when the live watch is active with a list that is not empty, and no other
\* call emits one.  period_cnt is the period of the last accepted status_rate
\* divided by the handler period: a status_rate with a multiple of the handler
\* period in [handler period, 60000] sets period and period_cnt, any other
\* command leaves period_cnt as it is, and a rejected status_rate leaves the
\* period as well.
C39_StreamingPeriod ==
    [][ ev'.op = "cli_hndl" =>
          LET lw     == g_cli_live_watch'
              asked  == AskedPeriod(ev')
              wraps  == loop_cnt >= lw.period_cnt - 1
          IN  /\ loop_cnt < g_cli_live_watch.period_cnt
              /\ loop_cnt' < lw.period_cnt
              /\ loop_cnt' = IF wraps THEN 0 ELSE loop_cnt + 1
              /\ lw.period_cnt = g_cli_live_watch.period_cnt =>
                    (wraps <=> loop_cnt = lw.period_cnt - 1)
              /\ LiveLine(tx', lw.num_of) <=> (wraps /\ LiveWatchOn(lw))
              /\ IF asked # -1 /\ ValidPeriod(asked)
                 THEN /\ lw.period = asked
                      /\ lw.period_cnt = asked \div CLI_CFG_HNDL_PERIOD_MS
                 ELSE /\ lw.period_cnt = g_cli_live_watch.period_cnt
                      /\ asked # -1 => lw.period = g_cli_live_watch.period
      ]_vars

\* The period was changed to 30 ms and the streaming of two parameters was
\* started; the third call of the handler since the last line emitted the
\* line with the two values.
C39_Witness ==
    /\ ev.op = "cli_hndl"
    /\ g_cli_live_watch.period = 30
    /\ g_cli_live_watch.period_cnt = 3
    /\ g_cli_live_watch.active
    /\ g_cli_live_watch.num_of = 2
    /\ loop_cnt = 0
    /\ tx = <<"0", ",", "0", "", Str(CLI_CFG_TERMINATION_STRING)>>

----------------------------------------------------------------------------
(* A cli_nvm_write that does not run to its end                            *)

\* The live watch commands: a list of two parameters, the start of the
\* streaming, and the save.
SaveLines ==
    { <<"s","t","a","t","u","s","_","d","e","s",SP,"2",",","1">>,
      <<"s","t","a","t","u","s","_","s","t","a","r","t">>,
      <<"s","t","a","t","u","s","_","s","a","v","e">> }

\* The device is reset while the handler runs status_save: cli_nvm_write has
\* made its first `done` calls, the region keeps what they wrote, and the
\* statics of the module are back at their initializers.
reset_in_nvm_write(done) ==
    LET after == <<"erase", "header_write", "par_list_write", "signature">>[done]
    IN  /\ gb_is_init
        /\ cfg.par_use_en /\ cfg.stream_nvm_en
        /\ buf_idx = 0
        /\ rx_fifo = <<"s","t","a","t","u","s","_","s","a","v","e">>
                        \o CLI_CFG_TERMINATION_STRING
        /\ nvm' = [NvmAfter(nvm, g_cli_live_watch, "none", done) EXCEPT
                     !.rd = NvmBlank.rd,
                     !.saved = IF done >= 4 THEN g_cli_live_watch ELSE nvm.saved,
                     !.written = (done >= 4)]
        /\ gb_is_init' = FALSE
        /\ gu8_rx_buffer' = [i \in DOMAIN gu8_rx_buffer |-> NUL]
        /\ buf_idx' = 0
        /\ rx_fifo' = <<>>
        /\ ev' = [NoEvent EXCEPT !.op = "reset", !.arg = after]
        /\ line_clean' = TRUE
        /\ ovr' = FALSE
        /\ rx_tail' = <<>>
        /\ tx' = <<>>
        /\ calls' = <<>>
        /\ ch_en' = [ch \in 0 .. (eCLI_CH_NUM_OF - 1) |-> FALSE]
        /\ gu8_tx_buffer' = ""
        /\ g_cli_live_watch' = LiveWatchDefault
        /\ par_values' = [n \in 0 .. (Len(ParTable) - 1) |-> ParTable[n + 1].def]
        /\ loop_cnt' = 0
        /\ UNCHANGED <<regVars, cfg, pc, mutex, tx_overrun, g_cli_osci>>

\* The module before cli_init, built with CLI_CFG_PAR_USE_EN == 1 and
\* CLI_CFG_STREAM_NVM_EN == 1 on a device whose NVM calls do not fail; the
\* NVM region is blank.
InitSave ==
    /\ gb_is_init = FALSE
    /\ InitModuleWith([DefaultCfg EXCEPT !.par_use_en = TRUE, !.stream_nvm_en = TRUE])
    /\ ch_en = [ch \in 0 .. (eCLI_CH_NUM_OF - 1) |-> FALSE]
    /\ gu8_rx_buffer = [i \in 0 .. (RxBufSizePar - 1) |-> NUL]

\* The application initializes the module; once it is initialized, live
\* watch commands arrive and the handler is polled, and the device is reset
\* after any call of a save but the last.
SpecSave ==
    InitSave /\ [][\/ cli_init
                   \/ \E l \in SaveLines : gb_is_init /\ if_receive_line(l)
                   \/ gb_is_init /\ cli_hndl
                   \/ \E done \in 1 .. 4 : reset_in_nvm_write(done)]_vars

\* The header and the parameter bytes cli_nvm_write stores for the live
\* watch data lw.
NvmImage(lw) == NvmAfter(NvmBlank, lw, "none", Cardinality(NvmWriteOps))

\* cli_init read the region: the module was not initialized and cli_if_init
\* succeeded.
InitRead == ev'.op = "cli_init" /\ ~gb_is_init /\ ev'.arg = eCLI_OK

\* C40: cli_nvm_write leaves the signature invalid from its first call until
\* its call that writes the signature, which follows the header and the
\* parameter list.  So a region with the valid signature holds the header and
\* the parameter bytes of one write; a cli_nvm_read after a write that was
\* cut short before the signature was written (or of a region never written)
\* returns eCLI_ERROR with "ERR, CLI NVM signature corrupted!" or
\* "ERR, CLI NVM CRC corrupted!" and leaves the live watch structure of the
\* caller as it was; a cli_nvm_read that returns eCLI_OK delivers period,
\* count and active flag of that one write.
C40_GuardedWrite ==
    [][ /\ nvm'.sign = "CLI_NVM_SIGN" =>
              /\ nvm'.written
              /\ nvm'.head = NvmImage(nvm'.saved).head
              /\ nvm'.par = NvmImage(nvm'.saved).par
        /\ (ev'.op = "reset" /\ ev'.arg \in {"erase", "header_write", "par_list_write"}) =>
              nvm'.sign # "CLI_NVM_SIGN"
        /\ (InitRead /\ ~nvm.written) =>
              /\ ev'.status = eCLI_ERROR
              /\ g_cli_live_watch' = g_cli_live_watch
              /\ tx' \in {Answer("ERR, CLI NVM signature corrupted!"),
                          Answer("ERR, CLI NVM CRC corrupted!")}
        /\ (InitRead /\ ev'.status = eCLI_OK) =>
              /\ nvm.written
              /\ g_cli_live_watch'.period = nvm.saved.period
              /\ g_cli_live_watch'.num_of = nvm.saved.num_of
              /\ g_cli_live_watch'.active = nvm.saved.active
      ]_vars

\* The live watch data with an empty list was saved; a later save of a list
\* of two parameters was cut short after the header was written, so the
\* region holds the new header behind a signature of 0 and the parameter
\* bytes of the first save; the cli_init after the reset answered that the
\* signature is corrupted and left the live watch at its defaults.
C40_Witness ==
    /\ ev.op = "cli_init"
    /\ ev.status = eCLI_ERROR
    /\ nvm.sign = "0"
    /\ nvm.saved.num_of = 0
    /\ nvm.head.num_of = 2
    /\ nvm.par = NvmImage(nvm.saved).par
    /\ nvm.par # NvmImage([nvm.saved EXCEPT !.par_list[0] = 1]).par
    /\ g_cli_live_watch = LiveWatchDefault
    /\ tx = Answer("ERR, CLI NVM signature corrupted!")
====
